---- MODULE Spec2Model ----
(***************************************************************************)
(* Order lifecycle orchestration of Sixxer: the order store, the state     *)
(* machine (src/src/orchestrator/state_machine.py), the order monitor's    *)
(* writes to the store (src/src/fiverr/order_monitor.py), the dispatcher   *)
(* (src/src/orchestrator/dispatcher.py) and the scheduler                  *)
(* (src/src/orchestrator/scheduler.py).                                    *)
(*                                                                         *)
(* Columns of the orders table that no property reads (buyer_username,     *)
(* price, created_at, updated_at) are left out of a row.                   *)
(***************************************************************************)
EXTENDS Integers, Sequences, FiniteSets, TLC

VARIABLES
  orders,   \* the orders table: id -> row
  last,     \* the last call made and how it ended
  log,      \* what the last step did: its status writes and collaborator calls
  sched,    \* the scheduler: where it is in its loop
  ai,       \* the AI client: its cost records, its accumulator, and the clock
  handled,  \* the orders _handle_new_order was called for in the current cycle
  calls,    \* the calls of transition that are under way at the same time
  wrapper   \* a function wrapped by retry: the loop of its wrapper

vars == <<orders, last, log, sched, ai, handled, calls, wrapper>>

-----------------------------------------------------------------------------
(* Bounds of the model *)

\* At most MaxRev revision requests are made in a run (over all orders).
MaxRev == 1

\* At most MaxNotes notes are appended in a run (over all orders).
MaxNotes == 1

\* Keys used as internal ids and as marketplace ids by the state machine harness.
Keys == {"a", "b"}

\* A reference that is the id of no row.
MissingRef == "zz"

-----------------------------------------------------------------------------
(* OrderStatus, src/src/models/schemas.py *)

\* OrderStatus.NEW (NEW is a reserved word of TLA+)
NEW_ == "new"
ANALYZING == "analyzing"
CLARIFYING == "clarifying"
IN_PROGRESS == "in_progress"
REVIEW == "review"
DELIVERING == "delivering"
DELIVERED == "delivered"
COMPLETED == "completed"
REVISION_REQUESTED == "revision_requested"
CANCELLED == "cancelled"
FAILED == "failed"

OrderStatus ==
  {NEW_, ANALYZING, CLARIFYING, IN_PROGRESS, REVIEW, DELIVERING, DELIVERED,
   COMPLETED, REVISION_REQUESTED, CANCELLED, FAILED}

\* The value of a NULL column and of an absent row.
Null == "null"

\* The value of a timestamp column that has been set.
Stamp == "ts"

-----------------------------------------------------------------------------
(* The state machine *)

\* _TRANSITIONS with the edge REVIEW -> IN_PROGRESS left out.
TRANSITIONS_without_rework ==
  [s \in OrderStatus |->
     CASE s = NEW_ -> {ANALYZING, FAILED, CANCELLED}
       [] s = ANALYZING -> {CLARIFYING, IN_PROGRESS, FAILED, CANCELLED}
       [] s = CLARIFYING -> {IN_PROGRESS, FAILED, CANCELLED}
       [] s = IN_PROGRESS -> {REVIEW, FAILED, CANCELLED}
       [] s = REVIEW -> {DELIVERING, FAILED, CANCELLED}
       [] s = DELIVERING -> {DELIVERED, FAILED, CANCELLED}
       [] s = DELIVERED -> {COMPLETED, REVISION_REQUESTED}
       [] s = REVISION_REQUESTED -> {IN_PROGRESS, FAILED, CANCELLED}
       [] s = COMPLETED -> {}
       [] s = CANCELLED -> {}
       [] s = FAILED -> {NEW_}]

\* _TRANSITIONS
TRANSITIONS ==
  [s \in OrderStatus |->
     CASE s = NEW_ -> {ANALYZING, FAILED, CANCELLED}
       [] s = ANALYZING -> {CLARIFYING, IN_PROGRESS, FAILED, CANCELLED}
       [] s = CLARIFYING -> {IN_PROGRESS, FAILED, CANCELLED}
       [] s = IN_PROGRESS -> {REVIEW, FAILED, CANCELLED}
       [] s = REVIEW -> {DELIVERING, IN_PROGRESS, FAILED, CANCELLED}
       [] s = DELIVERING -> {DELIVERED, FAILED, CANCELLED}
       [] s = DELIVERED -> {COMPLETED, REVISION_REQUESTED}
       [] s = REVISION_REQUESTED -> {IN_PROGRESS, FAILED, CANCELLED}
       [] s = COMPLETED -> {}
       [] s = CANCELLED -> {}
       [] s = FAILED -> {NEW_}]

\* OrderStateMachine.can_transition: _TRANSITIONS.get(current, set()).
can_transition(current, target) ==
  IF current \in DOMAIN TRANSITIONS THEN target \in TRANSITIONS[current] ELSE FALSE

\* The rows selected by WHERE id = ? OR fiverr_order_id = ?.
Matches(db, ref) ==
  {i \in DOMAIN db : i = ref \/ db[i].fiverr_order_id = ref}

\* Database.fetch_one on that query: the first row of a result without ORDER BY,
\* which is any of the matching rows, or no row.
FetchOne(db, ref) ==
  IF Matches(db, ref) = {} THEN {Null} ELSE Matches(db, ref)

\* The UPDATE of transition: the columns it sets in the row with id = db_id.
UpdatedRow(r, target, notes, paths) ==
  [r EXCEPT
     !.status = target,
     !.notes = IF notes # "" THEN Append(r.notes, notes) ELSE r.notes,
     !.deliverable_paths = IF paths.given THEN paths.v ELSE r.deliverable_paths,
     !.delivered_at = IF target = DELIVERED THEN Stamp ELSE r.delivered_at,
     !.revision_count =
        IF target = REVISION_REQUESTED THEN r.revision_count + 1
        ELSE r.revision_count]

\* An entry of the log of one operation: a write of a row's status (ev =
\* "status", from the stored status to the written one), or a call of a
\* collaborator (ev names it) made for the order `id`.
StatusEv(id, from, to) == [ev |-> "status", id |-> id, from |-> from, to |-> to]

CallEv(what, id) == [ev |-> what, id |-> id, from |-> "", to |-> ""]

\* transition without its can_transition check.
transition_unchecked(db, row, target, notes, paths) ==
  IF row = Null THEN [db |-> db, err |-> "NotFound", edges |-> <<>>]
  ELSE [db |-> [db EXCEPT ![row] = UpdatedRow(db[row], target, notes, paths)],
        err |-> "ok",
        edges |-> <<StatusEv(row, db[row].status, target)>>]

\* transition writing every row of the store (an UPDATE without its WHERE).
transition_updates_all(db, row, target, notes, paths) ==
  IF row = Null THEN [db |-> db, err |-> "NotFound", edges |-> <<>>]
  ELSE IF ~can_transition(db[row].status, target)
         THEN [db |-> db, err |-> "InvalidTransition", edges |-> <<>>]
  ELSE [db |-> [i \in DOMAIN db |-> UpdatedRow(db[i], target, notes, paths)],
        err |-> "ok",
        edges |-> <<StatusEv(row, db[row].status, target)>>]

\* transition treating a missing order as nothing to do.
transition_ignores_missing(db, row, target, notes, paths) ==
  IF row = Null THEN [db |-> db, err |-> "ok", edges |-> <<>>]
  ELSE IF ~can_transition(db[row].status, target)
         THEN [db |-> db, err |-> "InvalidTransition", edges |-> <<>>]
  ELSE [db |-> [db EXCEPT ![row] = UpdatedRow(db[row], target, notes, paths)],
        err |-> "ok",
        edges |-> <<StatusEv(row, db[row].status, target)>>]

\* OrderStateMachine.transition, with `row` the id of the row its fetch_one
\* returned (Null when it returned none). err is "ok" or names what is raised:
\* NotFound is ValueError("Order not found"), BadStatus the ValueError of
\* OrderStatus(row["status"]) on a stored string that is no member of the enum.
transition(db, row, target, notes, paths) ==
  IF row = Null THEN [db |-> db, err |-> "NotFound", edges |-> <<>>]
  ELSE IF db[row].status \notin OrderStatus
         THEN [db |-> db, err |-> "BadStatus", edges |-> <<>>]
  ELSE IF ~can_transition(db[row].status, target)
         THEN [db |-> db, err |-> "InvalidTransition", edges |-> <<>>]
  ELSE [db |-> [db EXCEPT ![row] = UpdatedRow(db[row], target, notes, paths)],
        err |-> "ok",
        edges |-> <<StatusEv(row, db[row].status, target)>>]

-----------------------------------------------------------------------------
(* Harness of the state machine: rows inserted as the tests insert them, and  *)
(* single calls of the state machine's operations with any arguments.         *)

\* A row as _insert_order of tests/test_state_machine.py inserts it.
InsertedRow(fid, gig, buyer, reqs) ==
  [fiverr_order_id |-> fid, gig_type |-> gig, status |-> NEW_,
   requirements |-> reqs, buyer_username |-> buyer, deliverable_paths |-> <<>>,
   revision_count |-> 0, delivered_at |-> Null, notes |-> <<>>]

\* No payload: the None a call returns.
NoPayload == [none |-> TRUE, message |-> "", file_paths |-> <<>>]

\* DeliveryPayload(message, file_paths)
DeliveryPayload(message, file_paths) ==
  [none |-> FALSE, message |-> message, file_paths |-> file_paths]

\* The last call made: the operation, how it ended and what it returned.
NoCall == [op |-> "none", args |-> <<>>, err |-> "ok", ret |-> NoPayload]

NotesArgs == {"", "note"}

NoPaths == [given |-> FALSE, v |-> <<>>]

Given(p) == [given |-> TRUE, v |-> p]

PathsArgs == {NoPaths, Given(<<"f1">>)}

Refs == Keys \cup {MissingRef}

\* _insert_order: id is the primary key and fiverr_order_id is UNIQUE, so an
\* insert that repeats either raises and stores nothing.
InsertOrder(id, fid) ==
  /\ id \notin DOMAIN orders
  /\ \A i \in DOMAIN orders : orders[i].fiverr_order_id # fid
  /\ orders' = [i \in DOMAIN orders \cup {id} |->
                  IF i = id THEN InsertedRow(fid, "writing", "testbuyer", <<"req">>)
                  ELSE orders[i]]
  /\ last' = [NoCall EXCEPT !.op = "insert"]
  /\ log' = <<>>
  /\ UNCHANGED <<sched, ai, handled, calls, wrapper>>

RECURSIVE Sum(_, _)
Sum(f, S) ==
  IF S = {} THEN 0
  ELSE LET x == CHOOSE y \in S : TRUE IN f[x] + Sum(f, S \ {x})

TotalRevisions(db) == Sum([i \in DOMAIN db |-> db[i].revision_count], DOMAIN db)

TotalNotes(db) == Sum([i \in DOMAIN db |-> Len(db[i].notes)], DOMAIN db)

\* The calls the model explores: those that keep the run within its bounds.
WithinBounds(db, target, notes) ==
  /\ (target = REVISION_REQUESTED => TotalRevisions(db) < MaxRev)
  /\ (notes # "" => TotalNotes(db) < MaxNotes)

CallTransition(ref, target, notes, paths) ==
  \E row \in FetchOne(orders, ref) :
    /\ WithinBounds(orders, target, notes)
    /\ LET r == transition(orders, row, target, notes, paths) IN
         /\ orders' = r.db
         /\ log' = <<>>
         /\ last' = [NoCall EXCEPT !.op = "transition", !.err = r.err]
         /\ UNCHANGED <<sched, ai, handled, calls, wrapper>>

\* OrderStateMachine.get_order
CallGetOrder(ref) ==
  \E row \in FetchOne(orders, ref) :
    /\ last' = [NoCall EXCEPT !.op = "get_order",
                          !.err = IF row = Null THEN "None" ELSE "ok"]
    /\ log' = <<>>
    /\ UNCHANGED <<orders, sched, ai, handled, calls, wrapper>>

\* OrderStateMachine.build_order_model: the row get_order returned, or None.
CallBuildOrderModel(ref) ==
  \E row \in FetchOne(orders, ref) :
    /\ last' = [NoCall EXCEPT !.op = "build_order_model",
                          !.err = IF row = Null THEN "None" ELSE "ok"]
    /\ log' = <<>>
    /\ UNCHANGED <<orders, sched, ai, handled, calls, wrapper>>

\* OrderStateMachine.can_transition called on any pair of statuses.
CallCanTransition(current, target) ==
  /\ last' = [NoCall EXCEPT
                !.op = "can_transition", !.args = <<current, target>>,
                !.err = IF can_transition(current, target) THEN "True" ELSE "False"]
  /\ log' = <<>>
  /\ UNCHANGED <<orders, sched, ai, handled, calls, wrapper>>

\* Scheduler.__init__: the scheduler before run() is called.
NotRunning ==
  [pc |-> "idle", todo |-> <<>>, cycle_count |-> 0, slept |-> 0, running |-> FALSE]

\* AIClient.__init__: with a Database or without one, no row in api_costs, the
\* accumulator at 0.  `records` are the ApiCost records _log_cost has built, one
\* for each response of the provider; the clock shows day 0.
NewClient(has_db) ==
  [has_db |-> has_db, costs |-> <<>>, accumulator |-> 0, today |-> 0,
   records |-> <<>>]

\* No call of transition is under way.
NoCalls == <<>>

\* No exception.
NoExc == [type |-> "", call |-> 0]

\* No function has been wrapped by retry.
NotWrapped ==
  [pc |-> "idle", sync |-> FALSE, max_attempts |-> 0, base_delay |-> 0,
   max_delay |-> 0, exceptions |-> {}, attempt |-> 0, called |-> 0,
   slept |-> <<>>, exc |-> NoExc, ret |-> 0]

InitSM ==
  /\ orders = <<>>
  /\ last = NoCall
  /\ log = <<>>
  /\ sched = NotRunning
  /\ ai = NewClient(TRUE)
  /\ handled = <<>>
  /\ calls = NoCalls
  /\ wrapper = NotWrapped

\* The calls of the state machine, one at a time.
StepsSM ==
  \/ \E id \in Keys, fid \in Keys : InsertOrder(id, fid)
  \/ \E ref \in Keys, target \in OrderStatus, notes \in NotesArgs, paths \in PathsArgs :
       CallTransition(ref, target, notes, paths)
  \/ \E target \in OrderStatus : CallTransition(MissingRef, target, "", NoPaths)
  \/ \E ref \in Refs : CallGetOrder(ref)
  \/ \E ref \in Refs : CallBuildOrderModel(ref)

NextSM == StepsSM

SpecSM == InitSM /\ [][NextSM]_vars

\* can_transition alone: called on every pair of statuses, on an empty store
\* and on stores that hold new orders.
StepsCan ==
  \/ \E id \in Keys : InsertOrder(id, id)
  \/ \E current \in OrderStatus, target \in OrderStatus :
       CallCanTransition(current, target)

NextCan == StepsCan

SpecCan == InitSM /\ [][NextCan]_vars

-----------------------------------------------------------------------------
(* The dispatcher, src/src/orchestrator/dispatcher.py.  One call is one      *)
(* operator: it takes the store and what the collaborators answer during the *)
(* call, and gives the store afterwards, the log of the call, what it raises *)
(* (exc) and what it returns (ret).                                          *)

\* GigType, src/src/models/schemas.py
GigType == {"writing", "coding", "data_entry"}

\* What the analyzer answers: it raises the error of its request, its request
\* is refused by check_budget (it raises BudgetExceededError), or it returns
\* an OrderAnalysis.
AnalysisRaises ==
  [out |-> "raise", gig_type |-> "writing", requirements |-> <<>>,
   needs_clarification |-> FALSE, clarification_questions |-> <<>>]

AnalysisRefused == [AnalysisRaises EXCEPT !.out = "budget"]

Analyses ==
  {AnalysisRaises, AnalysisRefused} \cup
  [out : {"ok"}, gig_type : GigType, requirements : {<<"r1">>},
   needs_clarification : BOOLEAN, clarification_questions : {<<>>, <<"q1">>}]

\* What a worker's process answers: it raises, its request is refused by
\* check_budget, or it returns a list of paths.
WorkerRuns ==
  [out : {"raise", "budget"}, paths : {<<>>}] \cup
  [out : {"ok"}, paths : {<<>>, <<"f1">>}]

\* What the revision worker answers.
RevisionRuns ==
  {[out |-> "raise", paths |-> <<>>]} \cup [out : {"ok"}, paths : {<<"f2">>}]

\* What a call of the communicator does: it returns its text, it raises the
\* error of its request, or the request is refused by check_budget.
CommRuns == {"ok", "raise", "budget"}

Envs == [analysis : Analyses, worker : WorkerRuns, comm : CommRuns]

\* The exception a collaborator raises.
CollaboratorError == "Exception"

\* The communicator logs the exception of AIClient.complete and raises it
\* again.
CommError(comm) ==
  IF comm = "budget" THEN "BudgetExceededError" ELSE CollaboratorError

\* The answers when the call reaches no collaborator after the analyzer.
NothingReached ==
  [analysis |-> AnalysisRaises, worker |-> [out |-> "raise", paths |-> <<>>],
   comm |-> "ok"]

\* The answers of the collaborators of process_new_order, without those that
\* differ only in the answer of a collaborator the call never reaches: after
\* an analysis that raises no worker and no communicator is called, after a
\* request for clarification no worker, after a worker that raises no
\* communicator.
ReachedEnvs ==
  {env \in Envs :
     LET a == env.analysis
         asks == a.needs_clarification /\ a.clarification_questions # <<>>
         first == NothingReached.worker
     IN /\ (a.out # "ok" => env.worker = first /\ env.comm = "ok")
        /\ (a.out = "ok" /\ asks => env.worker = first)
        /\ (a.out = "ok" /\ ~asks /\ env.worker.out # "ok" => env.comm = "ok")}

\* The row a lookup by id or fiverr_order_id returns in the stores of the
\* dispatcher and of the scheduler, where a reference matches at most one row.
Lookup(db, ref) == CHOOSE r \in FetchOne(db, ref) : TRUE

\* self._sm.transition(order_id, target, notes=..., deliverable_paths=...)
sm_transition(db, ref, target, notes, paths) ==
  transition(db, Lookup(db, ref), target, notes, paths)

Returned(db, lg, ret) == [db |-> db, log |-> lg, exc |-> "none", ret |-> ret]

Raised(db, lg, exc) == [db |-> db, log |-> lg, exc |-> exc, ret |-> NoPayload]

\* A transition made inside the call: the call goes on with `next` when it
\* succeeded, and the error propagates out of the call when it did not.
ThenIfOk(t, lg, next) ==
  IF t.err # "ok" THEN Raised(t.db, lg, t.err) ELSE next

\* The UPDATE of the analysis results: gig_type and requirements of every row
\* WHERE id = ? OR fiverr_order_id = ?.
WithAnalysis(db, ref, a) ==
  [i \in DOMAIN db |->
     IF i \in Matches(db, ref)
       THEN [db[i] EXCEPT !.gig_type = a.gig_type, !.requirements = a.requirements]
       ELSE db[i]]

\* pno_review that does not store the worker's paths with the transition.
pno_review_dropping_paths(db, lg, ref, env) ==
  LET t == sm_transition(db, ref, REVIEW, "", NoPaths)
      lg1 == lg \o t.edges
      lg2 == Append(lg1, CallEv("generate_delivery_message", ref))
  IN ThenIfOk(t, lg,
       IF env.comm # "ok" THEN Raised(t.db, lg2, CommError(env.comm))
       ELSE Returned(t.db, lg2, DeliveryPayload("delivery_msg", env.worker.paths)))

\* process_new_order, steps 6 and 7: REVIEW with the paths, then the message.
pno_review(db, lg, ref, env) ==
  LET t == sm_transition(db, ref, REVIEW, "", Given(env.worker.paths))
      lg1 == lg \o t.edges
      lg2 == Append(lg1, CallEv("generate_delivery_message", ref))
  IN ThenIfOk(t, lg,
       IF env.comm # "ok" THEN Raised(t.db, lg2, CommError(env.comm))
       ELSE Returned(t.db, lg2, DeliveryPayload("delivery_msg", env.worker.paths)))

FailedAfter(db, lg, ref, note) ==
  LET t == sm_transition(db, ref, FAILED, note, NoPaths)
  IN ThenIfOk(t, lg, Returned(t.db, lg \o t.edges, NoPayload))

\* f"No worker for gig type: {analysis.gig_type.value}"
NoWorkerNote(gig_type) == "No worker for gig type: " \o gig_type

\* pno_work handing an order whose gig type has no worker to a worker all the
\* same.
pno_work_with_any_worker(db, lg, ref, env, workers) ==
  LET t == sm_transition(db, ref, IN_PROGRESS, "", NoPaths)
      lg1 == lg \o t.edges
      lg2 == Append(lg1, CallEv("worker.process", ref))
  IN ThenIfOk(t, lg,
       IF Lookup(t.db, ref) = Null THEN Returned(t.db, lg1, NoPayload)
       ELSE IF env.worker.out # "ok"
         THEN FailedAfter(t.db, lg2, ref, "Worker execution failed")
       ELSE pno_review(t.db, lg2, ref, env))

\* pno_work returning None after a failure of the worker without the
\* transition to FAILED.
pno_work_leaving_failure_unrecorded(db, lg, ref, env, workers) ==
  LET t == sm_transition(db, ref, IN_PROGRESS, "", NoPaths)
      lg1 == lg \o t.edges
      lg2 == Append(lg1, CallEv("worker.process", ref))
  IN ThenIfOk(t, lg,
       IF Lookup(t.db, ref) = Null THEN Returned(t.db, lg1, NoPayload)
       ELSE IF env.analysis.gig_type \notin workers
         THEN FailedAfter(t.db, lg1, ref, NoWorkerNote(env.analysis.gig_type))
       ELSE IF env.worker.out # "ok" THEN Returned(t.db, lg2, NoPayload)
       ELSE pno_review(t.db, lg2, ref, env))

\* process_new_order, steps 4 and 5: IN_PROGRESS, then the worker.
pno_work(db, lg, ref, env, workers) ==
  LET t == sm_transition(db, ref, IN_PROGRESS, "", NoPaths)
      lg1 == lg \o t.edges
      lg2 == Append(lg1, CallEv("worker.process", ref))
  IN ThenIfOk(t, lg,
       IF Lookup(t.db, ref) = Null THEN Returned(t.db, lg1, NoPayload)
       ELSE IF env.analysis.gig_type \notin workers
         THEN FailedAfter(t.db, lg1, ref, NoWorkerNote(env.analysis.gig_type))
       ELSE IF env.worker.out # "ok"
         THEN FailedAfter(t.db, lg2, ref, "Worker execution failed")
       ELSE pno_review(t.db, lg2, ref, env))

\* process_new_order, step 3: CLARIFYING and the clarification message.
pno_clarify(db, lg, ref, env) ==
  LET t == sm_transition(db, ref, CLARIFYING, "", NoPaths)
      lg1 == Append(lg \o t.edges, CallEv("generate_clarification", ref))
  IN ThenIfOk(t, lg,
       IF env.comm # "ok" THEN Raised(t.db, lg1, CommError(env.comm))
       ELSE Returned(t.db, lg1, DeliveryPayload("clarification_msg", <<>>)))

\* pno_analyze asking for clarification whenever the analysis says it is
\* needed, whether or not it has questions.
pno_analyze_without_question_check(db, lg, ref, env, workers) ==
  LET lg1 == Append(lg, CallEv("analyze_order", ref))
      db1 == WithAnalysis(db, ref, env.analysis)
  IN IF env.analysis.out # "ok" THEN FailedAfter(db, lg1, ref, "Analysis failed")
     ELSE IF env.analysis.needs_clarification
       THEN pno_clarify(db1, lg1, ref, env)
     ELSE pno_work(db1, lg1, ref, env, workers)

\* pno_analyze writing gig type and requirements before it looks at how the
\* analysis ended.
pno_analyze_rewriting_on_failure(db, lg, ref, env, workers) ==
  LET lg1 == Append(lg, CallEv("analyze_order", ref))
      db1 == WithAnalysis(db, ref, env.analysis)
  IN IF env.analysis.out # "ok" THEN FailedAfter(db1, lg1, ref, "Analysis failed")
     ELSE IF env.analysis.needs_clarification
             /\ env.analysis.clarification_questions # <<>>
       THEN pno_clarify(db1, lg1, ref, env)
     ELSE pno_work(db1, lg1, ref, env, workers)

\* process_new_order, step 2: the analysis and the UPDATE of its results.
pno_analyze(db, lg, ref, env, workers) ==
  LET lg1 == Append(lg, CallEv("analyze_order", ref))
      db1 == WithAnalysis(db, ref, env.analysis)
  IN IF env.analysis.out # "ok" THEN FailedAfter(db, lg1, ref, "Analysis failed")
     ELSE IF env.analysis.needs_clarification
             /\ env.analysis.clarification_questions # <<>>
       THEN pno_clarify(db1, lg1, ref, env)
     ELSE pno_work(db1, lg1, ref, env, workers)

\* Dispatcher.process_new_order(order_id, requirements_text, gig_title), with
\* `workers` the gig types that have a worker registered.
process_new_order(db, ref, env, workers) ==
  LET t == sm_transition(db, ref, ANALYZING, "", NoPaths)
  IN ThenIfOk(t, <<>>,
       IF Lookup(t.db, ref) = Null THEN Returned(t.db, t.edges, NoPayload)
       ELSE pno_analyze(t.db, t.edges, ref, env, workers))

\* process_revision that does not store the revised paths with the transition
\* to REVIEW.
process_revision_keeping_old_paths(db, ref, run, comm) ==
  LET t == sm_transition(db, ref, IN_PROGRESS, "", NoPaths)
      lg1 == Append(t.edges, CallEv("revision_worker.process_revision", ref))
      t2 == sm_transition(t.db, ref, REVIEW, "", NoPaths)
      lg2 == Append(lg1 \o t2.edges, CallEv("generate_revision_response", ref))
  IN ThenIfOk(t, <<>>,
       IF Lookup(t.db, ref) = Null THEN Returned(t.db, t.edges, NoPayload)
       ELSE IF run.out = "raise"
         THEN FailedAfter(t.db, lg1, ref, "Revision worker failed")
       ELSE ThenIfOk(t2, lg1,
              IF comm # "ok" THEN Raised(t2.db, lg2, CommError(comm))
              ELSE Returned(t2.db, lg2, DeliveryPayload("revision_msg", run.paths))))

\* Dispatcher.process_revision(order_id, feedback)
process_revision(db, ref, run, comm) ==
  LET t == sm_transition(db, ref, IN_PROGRESS, "", NoPaths)
      lg1 == Append(t.edges, CallEv("revision_worker.process_revision", ref))
      t2 == sm_transition(t.db, ref, REVIEW, "", Given(run.paths))
      lg2 == Append(lg1 \o t2.edges, CallEv("generate_revision_response", ref))
  IN ThenIfOk(t, <<>>,
       IF Lookup(t.db, ref) = Null THEN Returned(t.db, t.edges, NoPayload)
       ELSE IF run.out = "raise"
         THEN FailedAfter(t.db, lg1, ref, "Revision worker failed")
       ELSE ThenIfOk(t2, lg1,
              IF comm # "ok" THEN Raised(t2.db, lg2, CommError(comm))
              ELSE Returned(t2.db, lg2, DeliveryPayload("revision_msg", run.paths))))

\* Dispatcher.generate_acknowledgment(order_id): None when the order is not
\* found, else the communicator's text for the order's requirements summary.
generate_acknowledgment(db, ref, comm) ==
  IF Lookup(db, ref) = Null THEN Returned(db, <<>>, NoPayload)
  ELSE IF comm # "ok"
    THEN Raised(db, <<CallEv("generate_acknowledgment", ref)>>, CommError(comm))
  ELSE Returned(db, <<CallEv("generate_acknowledgment", ref)>>,
                DeliveryPayload("ack_msg", <<>>))

-----------------------------------------------------------------------------
(* Harness of the dispatcher: the order Subject, inserted with id =           *)
(* fiverr_order_id as the monitor inserts it, brought to any status by calls  *)
(* of transition, and single calls of the dispatcher's operations for it (or  *)
(* for a reference that matches no row) with any answers of the               *)
(* collaborators.                                                             *)

Subject == "a"

DispRefs == {Subject, MissingRef}

\* The worker registries: the one of the tests' fixture and the one of main.py.
Registries == {{"writing"}, GigType}

\* The calls that stay within the bounds of the model.
ResultWithinBounds(db) ==
  TotalRevisions(db) <= MaxRev /\ TotalNotes(db) <= MaxNotes

Finish(op, ref, r) ==
  /\ ResultWithinBounds(r.db)
  /\ orders' = r.db
  /\ log' = r.log
  /\ last' = [op |-> op, args |-> <<ref>>, err |-> r.exc, ret |-> r.ret]
  /\ UNCHANGED <<sched, ai, handled, calls, wrapper>>

\* The answers and the registry of a call of process_new_order, without the
\* pairs that differ only in what the call never looks at: the registry is
\* looked up only after an analysis that asks for no clarification, both
\* registries hold the worker for "writing", and when the registry holds no
\* worker for the gig type no worker and no communicator is called.
ReachedCalls ==
  {call \in ReachedEnvs \X Registries :
     LET env == call[1]
         a == env.analysis
         looked_up == /\ a.out = "ok"
                      /\ ~(a.needs_clarification /\ a.clarification_questions # <<>>)
     IN /\ (~looked_up \/ a.gig_type = "writing" => call[2] = GigType)
        /\ (looked_up /\ a.gig_type \notin call[2] =>
              env.worker = NothingReached.worker /\ env.comm = "ok")}

CallProcessNewOrder(ref, env, workers) ==
  Finish("process_new_order", ref, process_new_order(orders, ref, env, workers))

CallProcessRevision(ref, run, comm) ==
  Finish("process_revision", ref, process_revision(orders, ref, run, comm))

CallGenerateAcknowledgment(ref, comm) ==
  Finish("generate_acknowledgment", ref, generate_acknowledgment(orders, ref, comm))

StepsDisp ==
  \/ InsertOrder(Subject, Subject)
  \/ \E target \in OrderStatus : CallTransition(Subject, target, "", NoPaths)
  \/ \E call \in ReachedCalls : CallProcessNewOrder(Subject, call[1], call[2])
  \/ CallProcessNewOrder(MissingRef, NothingReached, GigType)
  \/ \E ref \in DispRefs, run \in RevisionRuns, comm \in CommRuns :
       CallProcessRevision(ref, run, comm)
  \/ \E ref \in DispRefs, comm \in CommRuns :
       CallGenerateAcknowledgment(ref, comm)

NextDisp == StepsDisp

SpecDisp == InitSM /\ [][NextDisp]_vars

-----------------------------------------------------------------------------
(* The order monitor, src/src/fiverr/order_monitor.py *)

\* The status text the monitor scrapes for an order: the lowercased text of
\* the page's status element, or "" when it finds none.  The page is not under
\* the program's control; these are the texts the scheduler names ("new",
\* "active", "in progress", "") and the texts that are values of OrderStatus.
ScrapedStatuses == OrderStatus \cup {"active", "in progress", ""}

\* The buyer name the monitor scrapes: "" when the page shows none.
ScrapedBuyers == {"", "bob"}

\* _infer_gig_type of the title the monitor scrapes.
ScrapedGigTypes == {"writing"}

\* The ids of the orders the marketplace shows.
Listed == {"a"}

\* An order as _scrape_order_list returns it.
Scraped ==
  [fiverr_order_id : Listed, status : ScrapedStatuses,
   buyer_username : ScrapedBuyers, gig_type : ScrapedGigTypes]

\* The orders page: each listed order at most once, in any order.
Pages ==
  {<<>>} \cup {<<o>> : o \in Scraped} \cup
  {<<o1, o2>> : <<o1, o2>> \in
     {w \in Scraped \X Scraped : w[1].fiverr_order_id # w[2].fiverr_order_id}}

\* The rows selected by WHERE fiverr_order_id = ?.
ByFiverrId(db, fid) == {i \in DOMAIN db : db[i].fiverr_order_id = fid}

\* UPDATE orders SET status = ? WHERE fiverr_order_id = ?
WithStatus(db, fid, status) ==
  [i \in DOMAIN db |->
     IF i \in ByFiverrId(db, fid) THEN [db[i] EXCEPT !.status = status] ELSE db[i]]

\* The status writes of an UPDATE of the rows with this fiverr_order_id.
WritesTo(db, fid, status) ==
  IF ByFiverrId(db, fid) = {} THEN <<>>
  ELSE LET i == CHOOSE j \in ByFiverrId(db, fid) : TRUE
       IN <<StatusEv(i, db[i].status, status)>>

\* The loop of check_for_new_orders over the scraped orders: an order with no
\* row is inserted with id = fiverr_order_id and status 'new'; an order whose
\* row holds another status than the scraped one has its status overwritten
\* with the scraped one.  Both are appended to new_or_changed.
RECURSIVE compare_with_database(_, _, _, _)
compare_with_database(db, page, new_or_changed, lg) ==
  IF page = <<>>
    THEN [db |-> db, new_or_changed |-> new_or_changed, log |-> lg, exc |-> "none"]
  ELSE
    LET order == Head(page)
        fid == order.fiverr_order_id
        existing == ByFiverrId(db, fid)
    IN IF existing = {}
         THEN IF fid \in DOMAIN db
                THEN [db |-> db, new_or_changed |-> new_or_changed, log |-> lg,
                      exc |-> "IntegrityError"]
              ELSE compare_with_database(
                     [i \in DOMAIN db \cup {fid} |->
                        IF i = fid
                          THEN InsertedRow(fid, order.gig_type, order.buyer_username, <<>>)
                          ELSE db[i]],
                     Tail(page), Append(new_or_changed, order), lg)
       ELSE IF \E i \in existing : db[i].status # order.status
         THEN compare_with_database(
                WithStatus(db, fid, order.status), Tail(page),
                Append(new_or_changed, order),
                lg \o WritesTo(db, fid, order.status))
       ELSE compare_with_database(db, Tail(page), new_or_changed, lg)

\* OrderMonitor.check_for_new_orders() on the scraped page.
check_for_new_orders(db, page) == compare_with_database(db, page, <<>>, <<>>)

\* OrderMonitor.detect_revision_request(order_id): when the order's page shows
\* a revision request, the UPDATE that sets 'revision_requested' and adds 1 to
\* revision_count, and the feedback is returned; else None.
detect_revision_request(db, fid, found) ==
  IF ~found THEN [db |-> db, log |-> <<>>, found |-> FALSE]
  ELSE [db |-> [i \in DOMAIN db |->
                  IF i \in ByFiverrId(db, fid)
                    THEN [db[i] EXCEPT !.status = REVISION_REQUESTED,
                                       !.revision_count = @ + 1]
                    ELSE db[i]],
        log |-> WritesTo(db, fid, REVISION_REQUESTED),
        found |-> TRUE]

-----------------------------------------------------------------------------
(* The scheduler, src/src/orchestrator/scheduler.py.  run() is one coroutine: *)
(* sched.pc is the step of _run_cycle it is at, sched.todo the orders the     *)
(* step's loop has still to visit.  One action is one visit of a loop, or     *)
(* the passage from one step to the next.                                     *)

\* asyncio.sleep(3600) after a BudgetExceededError.
BudgetPause == 3600

\* asyncio.sleep(60) after any other exception.
ErrorPause == 60

\* Scheduler.__init__: the polling interval, in minutes.
poll_min == 3

poll_max == 5

\* poll_interval(poll_min, poll_max): seconds between poll_min * 60 and
\* poll_max * 60; the ends of the range.
PollPauses == {poll_min * 60, poll_max * 60}

\* The cycles run() starts in a run of the model.
MaxCycles == 2

\* The workers main.py registers.
RegisteredWorkers == GigType

\* What the collaborators answer during one _handle_new_order: the fetch of
\* the details, the generation of the acknowledgment, its send, the
\* dispatcher's collaborators, and the send of a clarification.  Here too a
\* collaborator that is not reached has one answer: nothing follows a fetch
\* that raises or an acknowledgment that cannot be generated, and a message
\* is sent after process_new_order only when it returned one without files.
HandleEnvs ==
  {h \in [details : {"ok", "raise"}, ack : CommRuns, ack_send : {"ok", "raise"},
          env : ReachedEnvs, clarification_send : {"ok", "raise"}] :
     LET a == h.env.analysis
         asks == a.needs_clarification /\ a.clarification_questions # <<>>
         clarifies == /\ a.out = "ok" /\ h.env.comm = "ok"
                      /\ (asks \/ h.env.worker = [out |-> "ok", paths |-> <<>>])
         nothing_follows == /\ h.ack_send = "ok" /\ h.clarification_send = "ok"
                            /\ h.env = NothingReached
     IN /\ (h.details = "raise" => h.ack = "ok" /\ nothing_follows)
        /\ (h.ack # "ok" => nothing_follows)
        /\ (~clarifies => h.clarification_send = "ok")}

\* A send of a message on the order's page, and how it ended.
SendEv(what, id, out) == [ev |-> what, id |-> id, from |-> "", to |-> out]

\* _handle_new_order without the return after a failed fetch of the details.
handle_new_order_going_on_without_details(db, order_data, h) ==
  LET fid == order_data.fiverr_order_id
      lg0 == <<CallEv("get_order_details", fid)>>
      ack == generate_acknowledgment(db, fid, h.ack)
      lg1 == lg0 \o ack.log
      lg2 == IF ~ack.ret.none /\ ack.ret.message # "" /\ order_data.buyer_username # ""
               THEN Append(lg1, SendEv("send_acknowledgment", fid, h.ack_send))
               ELSE lg1
      r == process_new_order(db, fid, h.env, RegisteredWorkers)
      lg3 == lg2 \o r.log
  IN IF ack.exc # "none" THEN Raised(db, lg1, ack.exc)
     ELSE IF r.exc # "none" \/ r.ret.none THEN Returned(r.db, lg3, NoPayload)
     ELSE IF r.ret.file_paths = <<>> /\ r.ret.message # ""
       THEN Returned(r.db,
                     Append(lg3, SendEv("send_clarification", fid, h.clarification_send)),
                     NoPayload)
     ELSE Returned(r.db, lg3, NoPayload)

\* _handle_new_order with the send of the acknowledgment outside its try.
handle_new_order_returning_after_a_failed_send(db, order_data, h) ==
  LET fid == order_data.fiverr_order_id
      lg0 == <<CallEv("get_order_details", fid)>>
      ack == generate_acknowledgment(db, fid, h.ack)
      lg1 == lg0 \o ack.log
      lg2 == IF ~ack.ret.none /\ ack.ret.message # "" /\ order_data.buyer_username # ""
               THEN Append(lg1, SendEv("send_acknowledgment", fid, h.ack_send))
               ELSE lg1
      r == process_new_order(db, fid, h.env, RegisteredWorkers)
      lg3 == lg2 \o r.log
  IN IF h.details = "raise" THEN Returned(db, lg0, NoPayload)
     ELSE IF ack.exc # "none" THEN Raised(db, lg1, ack.exc)
     ELSE IF lg2 # lg1 /\ h.ack_send = "raise" THEN Returned(db, lg2, NoPayload)
     ELSE IF r.exc # "none" \/ r.ret.none THEN Returned(r.db, lg3, NoPayload)
     ELSE IF r.ret.file_paths = <<>> /\ r.ret.message # ""
       THEN Returned(r.db,
                     Append(lg3, SendEv("send_clarification", fid, h.clarification_send)),
                     NoPayload)
     ELSE Returned(r.db, lg3, NoPayload)

\* Scheduler._handle_new_order(order_data)
handle_new_order(db, order_data, h) ==
  LET fid == order_data.fiverr_order_id
      lg0 == <<CallEv("get_order_details", fid)>>
      ack == generate_acknowledgment(db, fid, h.ack)
      lg1 == lg0 \o ack.log
      lg2 == IF ~ack.ret.none /\ ack.ret.message # "" /\ order_data.buyer_username # ""
               THEN Append(lg1, SendEv("send_acknowledgment", fid, h.ack_send))
               ELSE lg1
      r == process_new_order(db, fid, h.env, RegisteredWorkers)
      lg3 == lg2 \o r.log
  IN IF h.details = "raise" THEN Returned(db, lg0, NoPayload)
     ELSE IF ack.exc # "none" THEN Raised(db, lg1, ack.exc)
     ELSE IF r.exc # "none" \/ r.ret.none THEN Returned(r.db, lg3, NoPayload)
     ELSE IF r.ret.file_paths = <<>> /\ r.ret.message # ""
       THEN Returned(r.db,
                     Append(lg3, SendEv("send_clarification", fid, h.clarification_send)),
                     NoPayload)
     ELSE Returned(r.db, lg3, NoPayload)

\* One visit of the loop of _check_for_revisions, with _handle_revision: every
\* exception of the visit is caught.
check_for_revision(db, fid, detect, run, comm) ==
  LET d == detect_revision_request(db, fid, detect = "found")
      lg0 == <<CallEv("detect_revision_request", fid)>>
      r == process_revision(d.db, fid, run, comm)
  IN IF detect = "raise" THEN Returned(db, lg0, NoPayload)
     ELSE IF ~d.found THEN Returned(db, lg0, NoPayload)
     ELSE Returned(r.db, lg0 \o d.log \o r.log, NoPayload)

\* The visit without the continue after a transition to DELIVERING that failed.
deliver_ready_order_after_a_failed_transition(db, fid, paths, comm, deliver) ==
  LET lg0 == <<CallEv("generate_delivery_message", fid)>>
      t == sm_transition(db, fid, DELIVERING, "", NoPaths)
      lg1 == Append(lg0 \o t.edges, CallEv("deliver_order", fid))
      t2 == IF deliver = "True"
              THEN sm_transition(t.db, fid, DELIVERED, "", NoPaths)
              ELSE sm_transition(t.db, fid, FAILED, "Browser delivery failed", NoPaths)
  IN IF paths = <<>> THEN Returned(db, <<>>, NoPayload)
     ELSE IF comm # "ok" THEN Raised(db, lg0, CommError(comm))
     ELSE IF t.err # "ok" THEN Returned(db, Append(lg0, CallEv("deliver_order", fid)), NoPayload)
     ELSE IF deliver = "raise" THEN Returned(t.db, lg1, NoPayload)
     ELSE IF t2.err # "ok" THEN Returned(t.db, lg1, NoPayload)
     ELSE Returned(t2.db, lg1 \o t2.edges, NoPayload)

\* One visit of the loop of _deliver_ready_orders for an order with these
\* deliverable paths.  deliver is what deliver_order answers: True, False, or
\* it raises.
deliver_ready_order(db, fid, paths, comm, deliver) ==
  LET lg0 == <<CallEv("generate_delivery_message", fid)>>
      t == sm_transition(db, fid, DELIVERING, "", NoPaths)
      lg1 == Append(lg0 \o t.edges, CallEv("deliver_order", fid))
      t2 == IF deliver = "True"
              THEN sm_transition(t.db, fid, DELIVERED, "", NoPaths)
              ELSE sm_transition(t.db, fid, FAILED, "Browser delivery failed", NoPaths)
  IN IF paths = <<>> THEN Returned(db, <<>>, NoPayload)
     ELSE IF comm # "ok" THEN Raised(db, lg0, CommError(comm))
     ELSE IF t.err # "ok" THEN Returned(db, lg0, NoPayload)
     ELSE IF deliver = "raise" THEN Returned(t.db, lg1, NoPayload)
     ELSE IF t2.err # "ok" THEN Returned(t.db, lg1, NoPayload)
     ELSE Returned(t2.db, lg1 \o t2.edges, NoPayload)

\* The order_data of a stored order.
RowData(db, i) ==
  [fiverr_order_id |-> db[i].fiverr_order_id, status |-> db[i].status,
   buyer_username |-> db[i].buyer_username, gig_type |-> db[i].gig_type]

\* The sequences that list the members of S once each.
RECURSIVE Orderings(_)
Orderings(S) ==
  IF S = {} THEN {<<>>}
  ELSE UNION {{<<x>> \o w : w \in Orderings(S \ {x})} : x \in S}

\* OrderStateMachine.get_orders_by_status(status): the rows with this status,
\* in any order (the SELECT has no ORDER BY).
get_orders_by_status(db, status) ==
  {[k \in DOMAIN w |-> RowData(db, w[k])] :
     w \in Orderings({i \in DOMAIN db : db[i].status = status})}

At(pc) == sched.pc = pc

Goto(pc, todo) == sched' = [sched EXCEPT !.pc = pc, !.todo = todo]

\* A run() whose handler of BudgetExceededError raises it again: the loop ends.
CycleFails_propagating_budget(exc) ==
  sched' = [sched EXCEPT
              !.pc = IF exc = "BudgetExceededError" THEN "raised" ELSE "sleep",
              !.todo = <<>>,
              !.slept = IF exc = "BudgetExceededError" THEN 0 ELSE ErrorPause]

\* A run() without its handler of Exception: the exception ends the loop.
CycleFails_propagating_errors(exc) ==
  sched' = [sched EXCEPT
              !.pc = IF exc = "BudgetExceededError" THEN "sleep" ELSE "returned",
              !.todo = <<>>,
              !.slept = IF exc = "BudgetExceededError" THEN BudgetPause ELSE 0]

\* The exception leaves _run_cycle: run() sleeps and goes on with its loop.
CycleFails(exc) ==
  sched' = [sched EXCEPT
              !.pc = "sleep", !.todo = <<>>,
              !.slept = IF exc = "BudgetExceededError" THEN BudgetPause
                        ELSE ErrorPause]

Did(op, args, exc) ==
  last' = [op |-> op, args |-> args, err |-> exc, ret |-> NoPayload]

\* run() is called: _running is set, and the loop is at its head.
Run ==
  /\ At("idle")
  /\ sched' = [sched EXCEPT !.pc = "sleep", !.running = TRUE]
  /\ Did("run", <<>>, "none")
  /\ log' = <<>>
  /\ UNCHANGED <<orders, ai, handled, calls, wrapper>>

\* stop(), called from the signal handler at any point of run().
Stop ==
  /\ sched.running
  /\ sched' = [sched EXCEPT !.running = FALSE]
  /\ UNCHANGED <<orders, last, log, ai, handled, calls, wrapper>>

\* A loop that does not look at _running.
StartCycle_ignoring_stop ==
  /\ At("sleep")
  /\ sched.cycle_count < MaxCycles
  /\ sched' = [sched EXCEPT !.pc = "session", !.cycle_count = @ + 1]
  /\ Did("cycle_start", <<>>, "none")
  /\ log' = <<>>
  /\ handled' = <<>>
  /\ UNCHANGED <<orders, ai, calls, wrapper>>

\* run(): the sleep has ended, _running holds, the loop starts its next cycle.
StartCycle ==
  /\ At("sleep")
  /\ sched.running
  /\ sched.cycle_count < MaxCycles
  /\ sched' = [sched EXCEPT !.pc = "session", !.cycle_count = @ + 1]
  /\ Did("cycle_start", <<>>, "none")
  /\ log' = <<>>
  /\ handled' = <<>>
  /\ UNCHANGED <<orders, ai, calls, wrapper>>

\* run(): the sleep has ended and _running does not hold: the loop ends and
\* run() returns.
ReturnFromRun ==
  /\ At("sleep")
  /\ ~sched.running
  /\ Goto("returned", <<>>)
  /\ Did("run_returned", <<>>, "none")
  /\ log' = <<>>
  /\ UNCHANGED <<orders, ai, handled, calls, wrapper>>

\* 1. session.ensure_session()
EnsureSession(out) ==
  /\ At("session")
  /\ IF out = "raise" THEN CycleFails(CollaboratorError) ELSE Goto("check", <<>>)
  /\ Did("ensure_session", <<>>, IF out = "raise" THEN CollaboratorError ELSE "none")
  /\ log' = <<>>
  /\ UNCHANGED <<orders, ai, handled, calls, wrapper>>

\* 2. monitor.check_for_new_orders(), which raises when the page cannot be
\* opened and else compares the scraped page with the store.
CheckForNewOrders(out, page) ==
  /\ At("check")
  /\ LET r == check_for_new_orders(orders, page)
         exc == IF out = "raise" THEN CollaboratorError ELSE r.exc
     IN /\ IF exc # "none" THEN CycleFails(exc) ELSE Goto("new", r.new_or_changed)
        /\ orders' = IF out = "raise" THEN orders ELSE r.db
        /\ log' = IF out = "raise" THEN <<>> ELSE r.log
        /\ Did("check_for_new_orders", <<>>, exc)
        /\ UNCHANGED <<ai, handled, calls, wrapper>>

\* The end of a visit of one of the loops of _run_cycle; `handled` records the
\* calls of _handle_new_order of the cycle.
Visited(op, r) ==
  /\ ResultWithinBounds(r.db)
  /\ orders' = r.db
  /\ log' = r.log
  /\ Did(op, <<Head(sched.todo).fiverr_order_id>>, r.exc)
  /\ IF r.exc # "none" THEN CycleFails(r.exc)
     ELSE Goto(sched.pc, Tail(sched.todo))
  /\ handled' = IF op \in {"handle_new_order", "recover_new_order"}
                  THEN Append(handled, Head(sched.todo).fiverr_order_id)
                  ELSE handled
  /\ UNCHANGED <<ai, calls, wrapper>>

\* 3. One order of new_orders: _handle_new_order when its scraped status is
\* one of "new", "active", "in progress", "".
ProcessNewOrder(h) ==
  /\ At("new") /\ sched.todo # <<>>
  /\ LET order_data == Head(sched.todo) IN
       IF order_data.status \in {"new", "active", "in progress", ""}
         THEN Visited("handle_new_order", handle_new_order(orders, order_data, h))
         ELSE Visited("skip", Returned(orders, <<>>, NoPayload))

\* A cycle that goes on to its revisions while new orders are still to handle.
BeginCheckForRevisions_before_the_handles_end ==
  /\ At("new")
  /\ \E delivered \in get_orders_by_status(orders, DELIVERED) :
       Goto("revisions", delivered)
  /\ Did("get_orders_by_status", <<DELIVERED>>, "none")
  /\ log' = <<>>
  /\ UNCHANGED <<orders, ai, handled, calls, wrapper>>

\* 4. _check_for_revisions(): the orders in DELIVERED.
BeginCheckForRevisions ==
  /\ At("new") /\ sched.todo = <<>>
  /\ \E delivered \in get_orders_by_status(orders, DELIVERED) :
       Goto("revisions", delivered)
  /\ Did("get_orders_by_status", <<DELIVERED>>, "none")
  /\ log' = <<>>
  /\ UNCHANGED <<orders, ai, handled, calls, wrapper>>

CheckForRevision(detect, run, comm) ==
  /\ At("revisions") /\ sched.todo # <<>>
  /\ Visited("check_for_revision",
             check_for_revision(orders, Head(sched.todo).fiverr_order_id,
                                detect, run, comm))

\* 5. _deliver_ready_orders(): the orders in REVIEW.
BeginDeliverReadyOrders ==
  /\ At("revisions") /\ sched.todo = <<>>
  /\ \E review_orders \in get_orders_by_status(orders, REVIEW) :
       Goto("deliver", review_orders)
  /\ Did("get_orders_by_status", <<REVIEW>>, "none")
  /\ log' = <<>>
  /\ UNCHANGED <<orders, ai, handled, calls, wrapper>>

\* The row of the visit is the one the SELECT returned: no visit of the loop
\* writes the row of another order.
DeliverReadyOrder(comm, deliver) ==
  /\ At("deliver") /\ sched.todo # <<>>
  /\ LET fid == Head(sched.todo).fiverr_order_id IN
       Visited("deliver_ready_order",
               deliver_ready_order(orders, fid,
                                   orders[Lookup(orders, fid)].deliverable_paths,
                                   comm, deliver))

\* 6. _send_pending_acknowledgments(): the orders in NEW.
BeginSendPendingAcknowledgments ==
  /\ At("deliver") /\ sched.todo = <<>>
  /\ \E new_orders \in get_orders_by_status(orders, NEW_) :
       Goto("acks", new_orders)
  /\ Did("get_orders_by_status", <<NEW_>>, "none")
  /\ log' = <<>>
  /\ UNCHANGED <<orders, ai, handled, calls, wrapper>>

RecoverNewOrder(h) ==
  /\ At("acks") /\ sched.todo # <<>>
  /\ Visited("recover_new_order", handle_new_order(orders, Head(sched.todo), h))

\* The cycle is complete: run() sleeps for the poll interval.
EndCycle ==
  /\ At("acks") /\ sched.todo = <<>>
  /\ \E seconds \in PollPauses :
       sched' = [sched EXCEPT !.pc = "sleep", !.slept = seconds]
  /\ Did("cycle_complete", <<>>, "none")
  /\ log' = <<>>
  /\ UNCHANGED <<orders, ai, handled, calls, wrapper>>

Init == InitSM

\* The steps of a run() that goes on, with a marketplace that shows one of
\* these pages and collaborators of _handle_new_order that answer one of these.
CycleStepsOn(pages, envs) ==
  \/ Run
  \/ StartCycle
  \/ \E out \in {"ok", "raise"} : EnsureSession(out)
  \/ \E out \in {"ok", "raise"}, page \in pages : CheckForNewOrders(out, page)
  \/ \E h \in envs : ProcessNewOrder(h)
  \/ BeginCheckForRevisions
  \/ \E detect \in {"none", "found", "raise"}, run \in RevisionRuns, comm \in CommRuns :
       CheckForRevision(detect, run, comm)
  \/ BeginDeliverReadyOrders
  \/ \E comm \in CommRuns, deliver \in {"True", "False", "raise"} :
       DeliverReadyOrder(comm, deliver)
  \/ BeginSendPendingAcknowledgments
  \/ \E h \in envs : RecoverNewOrder(h)
  \/ EndCycle

\* The steps of run().
RunStepsOn(pages) == CycleStepsOn(pages, HandleEnvs) \/ ReturnFromRun

RunSteps == RunStepsOn(Pages)

Next == RunSteps \/ Stop

Spec == Init /\ [][Next]_vars

\* The pages of a marketplace that shows an order as new until it is gone
\* from the list.
NewOrderPages == {page \in Pages : \A k \in DOMAIN page : page[k].status = "new"}

\* The steps of run() between two calls of _handle_new_order.
StepsBetweenHandles ==
  \/ Run
  \/ StartCycle
  \/ ReturnFromRun
  \/ \E out \in {"ok", "raise"} : EnsureSession(out)
  \/ \E out \in {"ok", "raise"}, page \in NewOrderPages : CheckForNewOrders(out, page)
  \/ BeginCheckForRevisions
  \/ \E detect \in {"none", "found", "raise"}, run \in RevisionRuns, comm \in CommRuns :
       CheckForRevision(detect, run, comm)
  \/ BeginDeliverReadyOrders
  \/ \E comm \in CommRuns, deliver \in {"True", "False", "raise"} :
       DeliverReadyOrder(comm, deliver)
  \/ BeginSendPendingAcknowledgments
  \/ EndCycle

\* run() is about to call _handle_new_order for the next order of its loop.
HandlePending == sched.pc \in {"new", "acks"} /\ sched.todo # <<>>

\* A marketplace that lists two orders, each shown as new with its buyer, and
\* a run() that nobody stops.
BatchListed == {"a", "b"}

BatchScraped ==
  [fiverr_order_id : BatchListed, status : {"new"}, buyer_username : {"bob"},
   gig_type : ScrapedGigTypes]

BatchPages ==
  {<<>>} \cup {<<o>> : o \in BatchScraped} \cup
  {<<o1, o2>> : <<o1, o2>> \in
     {w \in BatchScraped \X BatchScraped : w[1].fiverr_order_id # w[2].fiverr_order_id}}

\* Every way a call of _handle_new_order can end, for orders of one gig type
\* whose analysis asks a question exactly when it needs a clarification.
BatchHandleEnvs ==
  {h \in HandleEnvs :
     LET a == h.env.analysis
     IN /\ a.gig_type = "writing"
        /\ a.needs_clarification = (a.clarification_questions # <<>>)}

NextBatch == CycleStepsOn(BatchPages, BatchHandleEnvs)

SpecBatch == Init /\ [][NextBatch]_vars

\* run() with a marketplace that shows an order as new, such calls of
\* _handle_new_order, and a signal handler that may call stop().  Every await
\* of run() returns or raises, and asyncio.sleep ends: run() goes on to its
\* next step, and no call of _handle_new_order lasts forever.
NextLive == CycleStepsOn(NewOrderPages, BatchHandleEnvs) \/ ReturnFromRun \/ Stop

SpecLive ==
  /\ Init /\ [][NextLive]_vars
  /\ WF_vars(StepsBetweenHandles) /\ []<>~HandlePending

\* A later cycle of a run() that nobody stops: the cycles that follow the
\* MaxCycles-th are counted as that one.
StartLaterCycle ==
  /\ At("sleep")
  /\ sched.running
  /\ sched.cycle_count = MaxCycles
  /\ sched' = [sched EXCEPT !.pc = "session"]
  /\ Did("cycle_start", <<>>, "none")
  /\ log' = <<>>
  /\ handled' = <<>>
  /\ UNCHANGED <<orders, ai, calls, wrapper>>

\* A marketplace that lists the order a as new, with its buyer, or nothing.
LonePages ==
  {page \in NewOrderPages : \A k \in DOMAIN page : page[k].buyer_username = "bob"}

\* The calls of _handle_new_order in which every collaborator that is reached
\* succeeds.
SucceedingHandles ==
  {h \in BatchHandleEnvs :
     /\ h.details = "ok" /\ h.ack = "ok" /\ h.ack_send = "ok"
     /\ h.env.analysis.out = "ok" /\ h.env.comm = "ok"
     /\ h.clarification_send = "ok"
     /\ (h.env.analysis.needs_clarification \/ h.env.worker.out = "ok")}

\* The steps of a cycle in which every collaborator succeeds, between two
\* calls of _handle_new_order: the session is there, the page opens, the
\* buyer has asked for a revision or has not, the revision worker returns its
\* file and the delivery is made.
SucceedingBetweenHandles ==
  \/ Run
  \/ StartCycle
  \/ StartLaterCycle
  \/ EnsureSession("ok")
  \/ \E page \in LonePages : CheckForNewOrders("ok", page)
  \/ BeginCheckForRevisions
  \/ \E detect \in {"none", "found"} :
       CheckForRevision(detect, [out |-> "ok", paths |-> <<"f2">>], "ok")
  \/ BeginDeliverReadyOrders
  \/ DeliverReadyOrder("ok", "True")
  \/ BeginSendPendingAcknowledgments
  \/ EndCycle

\* The steps of a cycle in which every collaborator succeeds.
SucceedingSteps ==
  \/ SucceedingBetweenHandles
  \/ \E h \in SucceedingHandles : ProcessNewOrder(h)
  \/ \E h \in SucceedingHandles : RecoverNewOrder(h)

\* The store after the transitions to these statuses, made one after the
\* other for the order a; the worker's file is stored with REVIEW.
RECURSIVE AfterTransitions(_, _)
AfterTransitions(db, targets) ==
  IF targets = <<>> THEN db
  ELSE AfterTransitions(
         sm_transition(db, Subject, Head(targets), "",
                       IF Head(targets) = REVIEW THEN Given(<<"f1">>) ELSE NoPaths).db,
         Tail(targets))

\* The transitions a process had made for the order a when it was killed
\* inside a call of the dispatcher: none (the monitor had inserted the order),
\* the one before the analysis, those before the worker's run, or those
\* before the revision worker's run.
KilledAfter ==
  {<<>>, <<ANALYZING>>, <<ANALYZING, IN_PROGRESS>>,
   <<ANALYZING, IN_PROGRESS, REVIEW, DELIVERING, DELIVERED, REVISION_REQUESTED>>}

\* The stores run() may find when the process starts: an empty one, or the
\* one a killed process has left.
LeftStores ==
  {<<>>} \cup
  {AfterTransitions(check_for_new_orders(<<>>, page).db, w) :
     page \in LonePages \ {<<>>}, w \in KilledAfter}

InitFair ==
  /\ orders \in LeftStores
  /\ last = NoCall
  /\ log = <<>>
  /\ sched = NotRunning
  /\ ai = NewClient(TRUE)
  /\ handled = <<>>
  /\ calls = NoCalls
  /\ wrapper = NotWrapped

\* The steps of the first cycles, in which collaborators may fail.
FailingSteps ==
  sched.cycle_count < MaxCycles /\ CycleStepsOn(LonePages, BatchHandleEnvs)

\* A run() that keeps running cycles, with collaborators that may fail in the
\* first cycles and succeed from then on; every await returns and every
\* sleep ends: run() goes on to its next step, and no call of
\* _handle_new_order lasts for ever.
NextFair == FailingSteps \/ SucceedingSteps

SpecFair ==
  /\ InitFair /\ [][NextFair]_vars
  /\ WF_vars(SucceedingBetweenHandles) /\ []<>~HandlePending

-----------------------------------------------------------------------------
(* Calls of OrderStateMachine.transition that are under way together, as two  *)
(* tasks of one event loop make them.  A call is suspended where it awaits:   *)
(* in fetch_one, and in execute, which sends the UPDATE and commits.  Between *)
(* the two awaits the call checks can_transition on the status it read.       *)

\* The calls of transition under way together in a run of the model.
MaxCalls == 2

\* A call under way: its target, the await it is suspended in ("fetch_one",
\* "execute") or "done", the row and the status its fetch_one returned, how it
\* ended, and the store as it was when the first of the calls began.
StartedCall(target) ==
  [target |-> target, pc |-> "fetch_one", row |-> Null, current |-> "",
   err |-> "", before |-> IF calls = NoCalls THEN orders ELSE calls[1].before]

\* A task calls transition(Subject, target) and is suspended in fetch_one.
BeginTransition(target) ==
  /\ Subject \in DOMAIN orders
  /\ Len(calls) < MaxCalls
  /\ WithinBounds(orders, target, "")
  /\ calls' = Append(calls, StartedCall(target))
  /\ log' = IF calls = NoCalls THEN <<>> ELSE log
  /\ UNCHANGED <<orders, last, sched, ai, handled, wrapper>>

\* row = await self._db.fetch_one(...) returns to call k, which checks the
\* status it read and builds its UPDATE, or raises.
FetchOneReturns(k) ==
  /\ calls[k].pc = "fetch_one"
  /\ \E row \in FetchOne(orders, Subject) :
       LET checked == transition(orders, row, calls[k].target, "", NoPaths) IN
         calls' = [calls EXCEPT
                     ![k].row = row,
                     ![k].current = IF row = Null THEN "" ELSE orders[row].status,
                     ![k].err = checked.err,
                     ![k].pc = IF checked.err = "ok" THEN "execute" ELSE "done"]
  /\ UNCHANGED <<orders, last, log, sched, ai, handled, wrapper>>

\* await self._db.execute(sql, params) of call k: the UPDATE of the row with
\* id = db_id, whatever its status is by now, and the commit.
ExecuteUpdate(k) ==
  /\ calls[k].pc = "execute"
  /\ orders' = [orders EXCEPT ![calls[k].row] =
                  UpdatedRow(@, calls[k].target, "", NoPaths)]
  /\ log' = Append(log, StatusEv(calls[k].row, calls[k].current, calls[k].target))
  /\ calls' = [calls EXCEPT ![k].pc = "done"]
  /\ UNCHANGED <<last, sched, ai, handled, wrapper>>

\* Every call under way has ended.
CallsEnded == calls # NoCalls /\ \A k \in DOMAIN calls : calls[k].pc = "done"

\* The tasks have their answers.
CallsReturn ==
  /\ CallsEnded
  /\ calls' = NoCalls
  /\ last' = [NoCall EXCEPT !.op = "transition",
                            !.err = IF \E k \in DOMAIN calls : calls[k].err # "ok"
                                      THEN "InvalidTransitionError" ELSE "none"]
  /\ UNCHANGED <<orders, log, sched, ai, handled, wrapper>>

\* The order Subject, brought to any status by calls made one at a time, and
\* then calls of transition for it that are under way together.
StepsRace ==
  \/ calls = NoCalls /\ InsertOrder(Subject, Subject)
  \/ \E target \in OrderStatus :
       calls = NoCalls /\ CallTransition(Subject, target, "", NoPaths)
  \/ \E target \in OrderStatus : BeginTransition(target)
  \/ \E k \in DOMAIN calls : FetchOneReturns(k)
  \/ \E k \in DOMAIN calls : ExecuteUpdate(k)
  \/ CallsReturn

NextRace == StepsRace

SpecRace == InitSM /\ [][NextRace]_vars

-----------------------------------------------------------------------------
(* The AI client, src/src/ai/client.py.  Costs are whole units of money; a    *)
(* timestamp is the UTC day on which it was taken: the query of               *)
(* get_daily_cost compares the first ten characters of the stored ISO         *)
(* timestamp with today's date, both in UTC.                                  *)

\* daily_cap, in units.
daily_cap == 5

\* @retry(max_attempts=3, ...) on AIClient.complete
max_attempts == 3

\* The costs _calculate_cost gives for a response.
Costs == {2, 3}

\* The provider answers at most MaxResponses requests in a run.
MaxResponses == 3

\* The clock shows days 0..MaxDay.
MaxDay == 1

\* What the provider does with a request: it answers, it fails with one of the
\* exceptions the retry wrapper lists (APIConnectionError, RateLimitError,
\* InternalServerError), or it fails with another exception.
ProviderOutcomes == {"ok", "retryable", "fatal"}

\* What the provider does with the requests of one call of complete, attempt
\* by attempt.
RECURSIVE OutcomeSeqs(_)
OutcomeSeqs(n) ==
  IF n = 0 THEN {<<>>}
  ELSE {Append(w, o) : w \in OutcomeSeqs(n - 1), o \in ProviderOutcomes}

RECURSIVE SumCosts(_)
SumCosts(records) ==
  IF records = <<>> THEN 0 ELSE Head(records).cost_usd + SumCosts(Tail(records))

\* AIClient.get_daily_cost(): the sum of cost_usd over the api_costs records
\* whose timestamp starts with today's date, or the in-memory accumulator when
\* the client has no Database.
get_daily_cost(c) ==
  IF ~c.has_db THEN c.accumulator
  ELSE SumCosts(SelectSeq(c.costs, LAMBDA rec : rec.timestamp = c.today))

\* ApiCost(cost_usd=cost), with the timestamp of its creation.
ApiCost(c, cost) == [cost_usd |-> cost, timestamp |-> c.today]

\* AIClient._log_cost: the accumulator grows by the cost and the record is
\* built; with a Database the record is inserted, and a failure of the INSERT
\* is logged and swallowed.
log_cost(c, cost, insert) ==
  [c EXCEPT
     !.accumulator = @ + cost,
     !.records = Append(@, ApiCost(c, cost)),
     !.costs = IF c.has_db /\ insert = "ok" THEN Append(@, ApiCost(c, cost)) ELSE @]

AiResult(c, lg, exc) == [ai |-> c, log |-> lg, exc |-> exc]

\* complete_attempt with the budget checked before the first attempt only.
RECURSIVE complete_attempt_checking_once(_, _, _, _, _, _)
complete_attempt_checking_once(c, outs, cost, insert, attempt, lg) ==
  LET lg1 == IF attempt = 0 THEN Append(lg, CallEv("check_budget", "")) ELSE lg
      lg2 == Append(lg1, CallEv("messages.create", ""))
      out == outs[attempt + 1]
  IN IF attempt = 0 /\ get_daily_cost(c) >= daily_cap
       THEN AiResult(c, lg1, "BudgetExceededError")
     ELSE IF out = "ok"
       THEN AiResult(log_cost(c, cost, insert),
                     Append(lg2, CallEv("_log_cost", "")), "none")
     ELSE IF out = "fatal" THEN AiResult(c, lg2, "APIError")
     ELSE IF attempt + 1 = max_attempts THEN AiResult(c, lg2, "RetryableError")
     ELSE complete_attempt_checking_once(c, outs, cost, insert, attempt + 1,
                                         Append(lg2, CallEv("sleep", "")))

\* complete_attempt with BudgetExceededError among the exceptions listed for
\* retry.
RECURSIVE complete_attempt_retrying_refusals(_, _, _, _, _, _)
complete_attempt_retrying_refusals(c, outs, cost, insert, attempt, lg) ==
  LET lg1 == Append(lg, CallEv("check_budget", ""))
      lg2 == Append(lg1, CallEv("messages.create", ""))
      out == outs[attempt + 1]
      refused == get_daily_cost(c) >= daily_cap
  IN IF refused /\ attempt + 1 = max_attempts
       THEN AiResult(c, lg1, "BudgetExceededError")
     ELSE IF refused
       THEN complete_attempt_retrying_refusals(c, outs, cost, insert, attempt + 1,
                                               Append(lg1, CallEv("sleep", "")))
     ELSE IF out = "ok"
       THEN AiResult(log_cost(c, cost, insert),
                     Append(lg2, CallEv("_log_cost", "")), "none")
     ELSE IF out = "fatal" THEN AiResult(c, lg2, "APIError")
     ELSE IF attempt + 1 = max_attempts THEN AiResult(c, lg2, "RetryableError")
     ELSE complete_attempt_retrying_refusals(c, outs, cost, insert, attempt + 1,
                                             Append(lg2, CallEv("sleep", "")))

\* The loop of retry.async_wrapper around complete: each attempt runs
\* complete's body, check_budget() first, then the request to the provider and
\* _log_cost for its response.  BudgetExceededError and the provider's other
\* exceptions are not listed for retry and leave the call at once; a listed
\* exception is raised again after the last attempt and is followed by a sleep
\* and another attempt before.
RECURSIVE complete_attempt(_, _, _, _, _, _)
complete_attempt(c, outs, cost, insert, attempt, lg) ==
  LET lg1 == Append(lg, CallEv("check_budget", ""))
      lg2 == Append(lg1, CallEv("messages.create", ""))
      out == outs[attempt + 1]
  IN IF get_daily_cost(c) >= daily_cap THEN AiResult(c, lg1, "BudgetExceededError")
     ELSE IF out = "ok"
       THEN AiResult(log_cost(c, cost, insert),
                     Append(lg2, CallEv("_log_cost", "")), "none")
     ELSE IF out = "fatal" THEN AiResult(c, lg2, "APIError")
     ELSE IF attempt + 1 = max_attempts THEN AiResult(c, lg2, "RetryableError")
     ELSE complete_attempt(c, outs, cost, insert, attempt + 1,
                           Append(lg2, CallEv("sleep", "")))

\* AIClient.complete(system, user, ...), as the retry wrapper runs it.
complete(c, outs, cost, insert) == complete_attempt(c, outs, cost, insert, 0, <<>>)

-----------------------------------------------------------------------------
(* Harness of the AI client: calls of complete and of get_daily_cost by a     *)
(* client with a Database or without one, and the passing of days.            *)

CallComplete(outs, cost, insert) ==
  LET r == complete(ai, outs, cost, insert) IN
    /\ Len(r.ai.records) <= MaxResponses
    /\ ai' = r.ai
    /\ log' = r.log
    /\ last' = [NoCall EXCEPT !.op = "complete", !.err = r.exc]
    /\ UNCHANGED <<orders, sched, handled, calls, wrapper>>

CallGetDailyCost ==
  /\ last' = [NoCall EXCEPT !.op = "get_daily_cost", !.args = <<get_daily_cost(ai)>>]
  /\ log' = <<>>
  /\ UNCHANGED <<orders, sched, ai, handled, calls, wrapper>>

\* Midnight UTC passes.
NextDay ==
  /\ ai.today < MaxDay
  /\ ai' = [ai EXCEPT !.today = @ + 1]
  /\ last' = [NoCall EXCEPT !.op = "midnight"]
  /\ log' = <<>>
  /\ UNCHANGED <<orders, sched, handled, calls, wrapper>>

InitAI ==
  /\ orders = <<>>
  /\ last = NoCall
  /\ log = <<>>
  /\ sched = NotRunning
  /\ ai \in {NewClient(TRUE), NewClient(FALSE)}
  /\ handled = <<>>
  /\ calls = NoCalls
  /\ wrapper = NotWrapped

StepsAI ==
  \/ \E outs \in OutcomeSeqs(max_attempts), cost \in Costs, insert \in {"ok", "raise"} :
       CallComplete(outs, cost, insert)
  \/ CallGetDailyCost
  \/ NextDay

NextAI == StepsAI

SpecAI == InitAI /\ [][NextAI]_vars

-----------------------------------------------------------------------------
(* The retry decorator, src/src/utils/retry.py.  wrapper.pc is where the      *)
(* wrapper's loop is: in the call of the wrapped function ("calling"), in the *)
(* sleep that follows a failure ("sleeping"), or left ("returned", "raised"). *)
(* Delays are whole units of time.                                            *)

\* The largest max_attempts a function is wrapped with in a run of the model.
MaxAttempts == 4

\* base_delay and max_delay of the wrappers of the model: a cap that the
\* delays reach, and one they do not reach.
BaseDelays == {1, 2}

MaxDelays == {3, 100}

\* The exceptions tuples of the wrappers: the default (Exception,), and the
\* (ConnectionError,) of the tests.
ExceptionTuples == {{"Exception"}, {"ConnectionError"}}

\* The types of the exceptions the wrapped function raises.
RaisedTypes == {"ConnectionError", "TypeError"}

\* except exceptions as exc: the clause catches an exception whose type is in
\* the tuple or a subclass of one in it; both raised types are subclasses of
\* Exception and neither is one of the other.
Caught(type, exceptions) == type \in exceptions \/ "Exception" \in exceptions

Min(a, b) == IF a <= b THEN a ELSE b

\* _compute_delay without its cap.
compute_delay_uncapped(attempt, base_delay, max_delay, jitter) ==
  base_delay * (2 ^ attempt) + jitter

\* _compute_delay(attempt, base_delay, max_delay), with the jitter that
\* random.uniform(0, base_delay) returned.
compute_delay(attempt, base_delay, max_delay, jitter) ==
  LET exp == base_delay * (2 ^ attempt)
  IN Min(exp + jitter, max_delay)

\* What random.uniform(0, base_delay) may return: a value from 0 to
\* base_delay, the ends included.
Jitters(base_delay) == 0 .. base_delay

\* retry(max_attempts, base_delay, max_delay, exceptions) applied to a
\* function: ValueError when max_attempts < 1, else the function is wrapped,
\* by sync_wrapper or by async_wrapper when it is a coroutine function.
Decorate(n, base_delay, max_delay, exceptions, sync) ==
  /\ wrapper.pc = "idle"
  /\ wrapper' = IF n < 1 THEN [NotWrapped EXCEPT !.pc = "rejected"]
                ELSE [NotWrapped EXCEPT
                        !.pc = "wrapped", !.sync = sync, !.max_attempts = n,
                        !.base_delay = base_delay, !.max_delay = max_delay,
                        !.exceptions = exceptions]
  /\ UNCHANGED <<orders, last, log, sched, ai, handled, calls>>

\* The wrapper is called: last_exc = None, and the loop starts with attempt 0.
CallWrapper ==
  /\ wrapper.pc \in {"wrapped", "returned", "raised"}
  /\ wrapper' = [wrapper EXCEPT !.pc = "calling", !.attempt = 0, !.called = 0,
                                !.slept = <<>>, !.exc = NoExc, !.ret = 0]
  /\ UNCHANGED <<orders, last, log, sched, ai, handled, calls>>

\* return func(*args, **kwargs): the function returns, and the wrapper
\* returns its result.  The result of the k-th call is k.
FuncReturns ==
  /\ wrapper.pc = "calling"
  /\ wrapper' = [wrapper EXCEPT !.pc = "returned", !.called = @ + 1,
                                !.ret = wrapper.called + 1]
  /\ UNCHANGED <<orders, last, log, sched, ai, handled, calls>>

\* A wrapper that sleeps after its last attempt too, and then raises.
FuncRaises_sleeping_after_the_last(type, jitter) ==
  /\ wrapper.pc = "calling"
  /\ jitter \in Jitters(wrapper.base_delay)
  /\ LET exc == [type |-> type, call |-> wrapper.called + 1]
         delay == compute_delay(wrapper.attempt, wrapper.base_delay,
                                wrapper.max_delay, jitter)
         sleep == IF wrapper.sync THEN "time.sleep" ELSE "asyncio.sleep"
     IN wrapper' =
          IF ~Caught(type, wrapper.exceptions)
            THEN [wrapper EXCEPT !.pc = "raised", !.called = @ + 1, !.exc = exc]
          ELSE IF wrapper.attempt + 1 = wrapper.max_attempts
            THEN [wrapper EXCEPT !.pc = "raised", !.called = @ + 1, !.exc = exc,
                                 !.slept = Append(@, [how |-> sleep, delay |-> delay])]
          ELSE [wrapper EXCEPT !.pc = "sleeping", !.called = @ + 1, !.exc = exc,
                               !.slept = Append(@, [how |-> sleep, delay |-> delay])]
  /\ UNCHANGED <<orders, last, log, sched, ai, handled, calls>>

\* A wrapper that retries after every exception.
FuncRaises_retrying_every_exception(type, jitter) ==
  /\ wrapper.pc = "calling"
  /\ jitter \in Jitters(wrapper.base_delay)
  /\ LET exc == [type |-> type, call |-> wrapper.called + 1]
         delay == compute_delay(wrapper.attempt, wrapper.base_delay,
                                wrapper.max_delay, jitter)
         sleep == IF wrapper.sync THEN "time.sleep" ELSE "asyncio.sleep"
     IN wrapper' =
          IF wrapper.attempt + 1 = wrapper.max_attempts
            THEN [wrapper EXCEPT !.pc = "raised", !.called = @ + 1, !.exc = exc]
          ELSE [wrapper EXCEPT !.pc = "sleeping", !.called = @ + 1, !.exc = exc,
                               !.slept = Append(@, [how |-> sleep, delay |-> delay])]
  /\ UNCHANGED <<orders, last, log, sched, ai, handled, calls>>

\* The function raises.  An exception the except clause does not catch leaves
\* the wrapper; one it catches is raised again when this was the last
\* attempt, and else the wrapper computes the delay and sleeps.
FuncRaises(type, jitter) ==
  /\ wrapper.pc = "calling"
  /\ jitter \in Jitters(wrapper.base_delay)
  /\ LET exc == [type |-> type, call |-> wrapper.called + 1]
         delay == compute_delay(wrapper.attempt, wrapper.base_delay,
                                wrapper.max_delay, jitter)
         sleep == IF wrapper.sync THEN "time.sleep" ELSE "asyncio.sleep"
     IN wrapper' =
          IF ~Caught(type, wrapper.exceptions)
            THEN [wrapper EXCEPT !.pc = "raised", !.called = @ + 1, !.exc = exc]
          ELSE IF wrapper.attempt + 1 = wrapper.max_attempts
            THEN [wrapper EXCEPT !.pc = "raised", !.called = @ + 1, !.exc = exc]
          ELSE [wrapper EXCEPT !.pc = "sleeping", !.called = @ + 1, !.exc = exc,
                               !.slept = Append(@, [how |-> sleep, delay |-> delay])]
  /\ UNCHANGED <<orders, last, log, sched, ai, handled, calls>>

\* A sleep after which the wrapper gives up.
SleepEnds_giving_up ==
  /\ wrapper.pc = "sleeping"
  /\ wrapper' = [wrapper EXCEPT !.pc = "raised"]
  /\ UNCHANGED <<orders, last, log, sched, ai, handled, calls>>

\* The sleep ends: the loop goes on with its next attempt.
SleepEnds ==
  /\ wrapper.pc = "sleeping"
  /\ wrapper' = [wrapper EXCEPT !.pc = "calling", !.attempt = @ + 1]
  /\ UNCHANGED <<orders, last, log, sched, ai, handled, calls>>

\* The wrapper's loop takes a step.
WrapperSteps ==
  \/ FuncReturns
  \/ \E type \in RaisedTypes, jitter \in UNION {Jitters(b) : b \in BaseDelays} :
       FuncRaises(type, jitter)
  \/ SleepEnds

StepsRetry ==
  \/ \E n \in 0 .. MaxAttempts, base_delay \in BaseDelays, max_delay \in MaxDelays,
        exceptions \in ExceptionTuples, sync \in BOOLEAN :
       Decorate(n, base_delay, max_delay, exceptions, sync)
  \/ CallWrapper
  \/ WrapperSteps

NextRetry == StepsRetry

SpecRetry == InitSM /\ [][NextRetry]_vars

\* The wrapped function returns or raises, and every sleep ends.
SpecRetryLive == InitSM /\ [][NextRetry]_vars /\ WF_vars(WrapperSteps)

-----------------------------------------------------------------------------
(* The transition table as the specification states it (section 4.2): the     *)
(* pairs (current, target) it allows.                                         *)

SpecEdges ==
  {<<NEW_, ANALYZING>>, <<NEW_, FAILED>>, <<NEW_, CANCELLED>>,
   <<ANALYZING, CLARIFYING>>, <<ANALYZING, IN_PROGRESS>>, <<ANALYZING, FAILED>>,
   <<ANALYZING, CANCELLED>>,
   <<CLARIFYING, IN_PROGRESS>>, <<CLARIFYING, FAILED>>, <<CLARIFYING, CANCELLED>>,
   <<IN_PROGRESS, REVIEW>>, <<IN_PROGRESS, FAILED>>, <<IN_PROGRESS, CANCELLED>>,
   <<REVIEW, DELIVERING>>, <<REVIEW, IN_PROGRESS>>, <<REVIEW, FAILED>>,
   <<REVIEW, CANCELLED>>,
   <<DELIVERING, DELIVERED>>, <<DELIVERING, FAILED>>, <<DELIVERING, CANCELLED>>,
   <<DELIVERED, COMPLETED>>, <<DELIVERED, REVISION_REQUESTED>>,
   <<REVISION_REQUESTED, IN_PROGRESS>>, <<REVISION_REQUESTED, FAILED>>,
   <<REVISION_REQUESTED, CANCELLED>>,
   <<FAILED, NEW_>>}

-----------------------------------------------------------------------------
(* Properties of the state machine, checked under SpecSM (C3: SpecCan) *)

\* C2: for every pair (current, target) that is not in the transition table, a
\* transition call that resolves to a row whose stored status is current, with
\* any notes and deliverable paths, raises InvalidTransitionError and leaves
\* the store as it was.
C2_IllegalEdgeRejected ==
  \A ref \in Refs, target \in OrderStatus, notes \in NotesArgs, paths \in PathsArgs :
    \A row \in FetchOne(orders, ref) :
      (row # Null /\ <<orders[row].status, target>> \notin SpecEdges) =>
        LET r == transition(orders, row, target, notes, paths) IN
          r.err = "InvalidTransition" /\ r.db = orders

\* A transition call has been refused on a store that holds two orders.
C2_Witness ==
  /\ last.op = "transition" /\ last.err = "InvalidTransition"
  /\ Cardinality(DOMAIN orders) = 2

\* C3: for all 11 x 11 pairs of statuses can_transition is true exactly when
\* the pair is in the transition table of the specification, and a call of
\* can_transition leaves the store as it was.
C3_CanTransitionIsTheTable ==
  /\ [](\A current \in OrderStatus, target \in OrderStatus :
          can_transition(current, target) <=> <<current, target>> \in SpecEdges)
  /\ [][last'.op = "can_transition" => orders' = orders]_vars

\* can_transition has answered True on a store that holds an order.
C3_Witness ==
  /\ last.op = "can_transition" /\ last.args = <<REVIEW, IN_PROGRESS>>
  /\ last.err = "True"
  /\ DOMAIN orders # {}

\* C4: for every legal edge (current, target), a transition call that resolves
\* to a row whose stored status is current succeeds, that row's status is
\* target afterwards, and every other row is as it was.
C4_LegalEdgeTaken ==
  \A ref \in Refs, target \in OrderStatus, notes \in NotesArgs, paths \in PathsArgs :
    \A row \in FetchOne(orders, ref) :
      (row # Null /\ <<orders[row].status, target>> \in SpecEdges) =>
        LET r == transition(orders, row, target, notes, paths) IN
          /\ r.err = "ok"
          /\ DOMAIN r.db = DOMAIN orders
          /\ r.db[row].status = target
          /\ \A j \in DOMAIN orders \ {row} : r.db[j] = orders[j]

\* A transition call has succeeded on a store that holds two orders, one of
\* them still NEW and the other not.
C4_Witness ==
  /\ last.op = "transition" /\ last.err = "ok"
  /\ \E i, j \in DOMAIN orders :
       orders[i].status = NEW_ /\ orders[j].status = DELIVERED

\* C8: a transition call whose reference matches no row, neither as id nor as
\* fiverr_order_id, raises the not-found error and leaves the store as it was.
C8_MissingOrderRejected ==
  \A ref \in Refs, target \in OrderStatus, notes \in NotesArgs, paths \in PathsArgs :
    Matches(orders, ref) = {} =>
      \A row \in FetchOne(orders, ref) :
        LET r == transition(orders, row, target, notes, paths) IN
          r.err = "NotFound" /\ r.db = orders

\* A transition call has ended not-found on a store that holds an order.
C8_Witness ==
  /\ last.op = "transition" /\ last.err = "NotFound"
  /\ DOMAIN orders # {}

\* C9: for every stored order, the lookup of transition, get_order and
\* build_order_model by the order's id and by its fiverr_order_id can return
\* that order's row only.
C9_BothIdsResolveToTheRow ==
  \A i \in DOMAIN orders :
    /\ FetchOne(orders, i) = {i}
    /\ FetchOne(orders, orders[i].fiverr_order_id) = {i}

-----------------------------------------------------------------------------
(* Properties of the dispatcher, checked under SpecDisp *)

\* The entries of a log that are writes of a status.
StatusWrites(lg) == SelectSeq(lg, LAMBDA e : e.ev = "status")

\* The entries of a log that are calls of the collaborator `what`.
CallsOf(lg, what) == SelectSeq(lg, LAMBDA e : e.ev = what)

\* The answers of the collaborators in the happy path: the analysis asks for no
\* clarification, its gig type has a registered worker, the worker returns its
\* paths and the delivery message is generated.
HappyPath(env, workers) ==
  /\ env.analysis.out = "ok"
  /\ ~env.analysis.needs_clarification
  /\ env.analysis.gig_type \in workers
  /\ env.worker.out = "ok"
  /\ env.comm = "ok"

\* C10: process_new_order on a NEW order, with an analysis that needs no
\* clarification and a registered worker that returns its paths, writes the
\* order's status exactly three times, NEW -> ANALYZING -> IN_PROGRESS ->
\* REVIEW, calls the worker exactly once, stores the returned paths as the
\* order's deliverable paths and returns a DeliveryPayload with those paths
\* and the generated delivery message.
C10_HappyPathReachesReview ==
  \A i \in DOMAIN orders, env \in Envs, workers \in Registries :
    (orders[i].status = NEW_ /\ HappyPath(env, workers)) =>
      LET r == process_new_order(orders, i, env, workers)
      IN /\ r.exc = "none"
         /\ StatusWrites(r.log) = << StatusEv(i, NEW_, ANALYZING),
                                     StatusEv(i, ANALYZING, IN_PROGRESS),
                                     StatusEv(i, IN_PROGRESS, REVIEW) >>
         /\ Len(CallsOf(r.log, "worker.process")) = 1
         /\ r.db[i].status = REVIEW
         /\ r.db[i].deliverable_paths = env.worker.paths
         /\ r.ret = DeliveryPayload("delivery_msg", env.worker.paths)

\* A call of process_new_order has just taken the order from NEW to REVIEW and
\* returned a payload with one path.
C10_Witness ==
  /\ last.op = "process_new_order" /\ last.err = "none"
  /\ last.ret = DeliveryPayload("delivery_msg", <<"f1">>)
  /\ Len(log) > 0 /\ log[1] = StatusEv(Subject, NEW_, ANALYZING)
  /\ Subject \in DOMAIN orders /\ orders[Subject].status = REVIEW
  /\ orders[Subject].deliverable_paths = <<"f1">>

\* The status writes of a log, as the statuses written.
Targets(lg) == [k \in DOMAIN StatusWrites(lg) |-> StatusWrites(lg)[k].to]

C12_WorkerFailureFailsTheOrder ==
  \A i \in DOMAIN orders :
    /\ \A env \in Envs, workers \in Registries :
         LET r == process_new_order(orders, i, env, workers)
         IN (env.worker.out # "ok" /\ CallsOf(r.log, "worker.process") # <<>>) =>
              /\ r.exc = "none" /\ r.ret = NoPayload
              /\ r.db[i].status = FAILED
              /\ r.db[i].notes = Append(orders[i].notes, "Worker execution failed")
    /\ \A run \in RevisionRuns, comm \in CommRuns :
         LET r == process_revision(orders, i, run, comm)
         IN (/\ run.out = "raise"
             /\ CallsOf(r.log, "revision_worker.process_revision") # <<>>) =>
              /\ r.exc = "none" /\ r.ret = NoPayload
              /\ r.db[i].status = FAILED
              /\ r.db[i].notes = Append(orders[i].notes, "Revision worker failed")

\* A call of process_new_order has just called the worker, which raised, and
\* left the order in FAILED with the note of the failure.
C12_Witness ==
  /\ last.op = "process_new_order" /\ last.err = "none" /\ last.ret = NoPayload
  /\ CallsOf(log, "worker.process") # <<>>
  /\ orders[Subject].status = FAILED
  /\ orders[Subject].notes = <<"Worker execution failed">>

\* C13: when the analyzer raises during process_new_order on a NEW order, the
\* call writes the order's status exactly twice, NEW -> ANALYZING -> FAILED,
\* appends the note of the failure, returns None, calls no worker, and leaves
\* the order's gig type and requirements as they were.
C13_AnalysisFailureFailsTheOrder ==
  \A i \in DOMAIN orders, env \in Envs, workers \in Registries :
    (orders[i].status = NEW_ /\ env.analysis.out # "ok") =>
      LET r == process_new_order(orders, i, env, workers)
      IN /\ r.exc = "none" /\ r.ret = NoPayload
         /\ StatusWrites(r.log) = << StatusEv(i, NEW_, ANALYZING),
                                     StatusEv(i, ANALYZING, FAILED) >>
         /\ r.db[i].notes = Append(orders[i].notes, "Analysis failed")
         /\ r.db[i].gig_type = orders[i].gig_type
         /\ r.db[i].requirements = orders[i].requirements
         /\ CallsOf(r.log, "worker.process") = <<>>

\* A call of process_new_order has just called the analyzer, which raised, and
\* left the order in FAILED with its requirements as inserted.
C13_Witness ==
  /\ last.op = "process_new_order" /\ last.err = "none" /\ last.ret = NoPayload
  /\ Targets(log) = <<ANALYZING, FAILED>>
  /\ CallsOf(log, "analyze_order") # <<>>
  /\ orders[Subject].notes = <<"Analysis failed">>
  /\ orders[Subject].requirements = <<"req">>

\* C14: when the analyzed gig type has no registered worker, process_new_order
\* on a NEW order returns None and leaves the order in FAILED, entered from
\* IN_PROGRESS, with a note that names the gig type; no worker is called.
\* This holds for every gig type that is missing from the registry.
C14_NoWorkerFailsTheOrder ==
  \A i \in DOMAIN orders, env \in Envs, workers \in Registries :
    (/\ orders[i].status = NEW_
     /\ env.analysis.out = "ok"
     /\ ~(env.analysis.needs_clarification
          /\ env.analysis.clarification_questions # <<>>)
     /\ env.analysis.gig_type \notin workers) =>
      LET r == process_new_order(orders, i, env, workers)
      IN /\ r.exc = "none" /\ r.ret = NoPayload
         /\ StatusWrites(r.log) = << StatusEv(i, NEW_, ANALYZING),
                                     StatusEv(i, ANALYZING, IN_PROGRESS),
                                     StatusEv(i, IN_PROGRESS, FAILED) >>
         /\ r.db[i].status = FAILED
         /\ r.db[i].notes =
              Append(orders[i].notes, "No worker for gig type: " \o env.analysis.gig_type)
         /\ CallsOf(r.log, "worker.process") = <<>>

\* A call of process_new_order has just failed an order that was analyzed as
\* a coding order, for which no worker was registered.
C14_Witness ==
  /\ last.op = "process_new_order" /\ last.err = "none" /\ last.ret = NoPayload
  /\ Targets(log) = <<ANALYZING, IN_PROGRESS, FAILED>>
  /\ orders[Subject].gig_type = "coding"
  /\ orders[Subject].notes = <<"No worker for gig type: coding">>

\* A collaborator that the call with this log called has raised.
CollaboratorFailed(lg, env) ==
  \/ CallsOf(lg, "analyze_order") # <<>> /\ env.analysis.out # "ok"
  \/ CallsOf(lg, "worker.process") # <<>> /\ env.worker.out # "ok"
  \/ /\ env.comm # "ok"
     /\ \/ CallsOf(lg, "generate_clarification") # <<>>
        \/ CallsOf(lg, "generate_delivery_message") # <<>>

RevisionCollaboratorFailed(lg, run, comm) ==
  \/ CallsOf(lg, "revision_worker.process_revision") # <<>> /\ run.out = "raise"
  \/ CallsOf(lg, "generate_revision_response") # <<>> /\ comm # "ok"

\* C15: the dispatcher never propagates an exception: for every stored order,
\* whatever its status, and whatever the collaborators answer,
\* process_new_order and process_revision return normally, and when a
\* collaborator they called has raised, the order is left in FAILED.
C15_DispatcherNeverRaises ==
  \A i \in DOMAIN orders :
    /\ \A env \in Envs, workers \in Registries :
         LET r == process_new_order(orders, i, env, workers)
         IN /\ r.exc = "none"
            /\ CollaboratorFailed(r.log, env) => r.db[i].status = FAILED
    /\ \A run \in RevisionRuns, comm \in CommRuns :
         LET r == process_revision(orders, i, run, comm)
         IN /\ r.exc = "none"
            /\ RevisionCollaboratorFailed(r.log, run, comm) => r.db[i].status = FAILED

-----------------------------------------------------------------------------
(* Properties of the whole system, checked under Spec *)

\* The status writes of the last step.
StatusLog == StatusWrites(log)

\* C1: every change of a stored order's status, in any step of any run of the
\* system, goes from the order's current status to a status the transition
\* table allows for it.
C1_StatusChangesFollowTable ==
  \A k \in 1..Len(StatusLog) : <<StatusLog[k].from, StatusLog[k].to>> \in SpecEdges

\* C5: COMPLETED and CANCELLED are absorbing and FAILED is left only to NEW: no
\* step changes the status of an order that is COMPLETED or CANCELLED, and a
\* step that changes the status of a FAILED order makes it NEW.
C5_TerminalStatusesAbsorb ==
  \A k \in 1..Len(StatusLog) :
    /\ StatusLog[k].from \notin {COMPLETED, CANCELLED}
    /\ StatusLog[k].from = FAILED => StatusLog[k].to = NEW_

\* The number of times a step made the status of order i REVISION_REQUESTED.
Entries(lg, i) ==
  Len(SelectSeq(lg, LAMBDA e : e.ev = "status" /\ e.id = i /\ e.to = REVISION_REQUESTED))

\* C6: revision_count counts the entries into REVISION_REQUESTED: it is 0 when
\* the order is inserted, every step adds to it the number of times the step
\* made the order's status REVISION_REQUESTED, and no step changes it otherwise.
C6_RevisionCountCountsEntries ==
  [][\A i \in DOMAIN orders' :
       orders'[i].revision_count =
         (IF i \in DOMAIN orders THEN orders[i].revision_count ELSE 0)
         + Entries(log', i)]_vars

\* C7: in every reachable state an order whose status is DELIVERED has a
\* delivered timestamp.
C7_DeliveredHasTimestamp ==
  \A i \in DOMAIN orders :
    orders[i].status = DELIVERED => orders[i].delivered_at # Null

\* C16: when the revision step visits an order, the order is in DELIVERED; if
\* the monitor reports a revision request for it, every status write of the
\* visit follows an edge of the table; and if the revision worker succeeds, the
\* writes are exactly DELIVERED -> REVISION_REQUESTED -> IN_PROGRESS -> REVIEW,
\* the order ends the visit in REVIEW with the revised paths as its
\* deliverable paths, and process_revision, once the response message is
\* generated, returns a payload with those paths.
C16_RevisionStepFollowsTheTable ==
  (At("revisions") /\ sched.todo # <<>>) =>
    LET fid == Head(sched.todo).fiverr_order_id
        i == Lookup(orders, fid)
    IN /\ i # Null
       /\ orders[i].status = DELIVERED
       /\ \A run \in RevisionRuns, comm \in CommRuns :
            LET d == detect_revision_request(orders, fid, TRUE)
                r == process_revision(d.db, fid, run, comm)
                visit == check_for_revision(orders, fid, "found", run, comm)
                writes == StatusWrites(visit.log)
            IN /\ visit.exc = "none"
               /\ \A k \in DOMAIN writes : <<writes[k].from, writes[k].to>> \in SpecEdges
               /\ run.out = "ok" =>
                    /\ writes = << StatusEv(i, DELIVERED, REVISION_REQUESTED),
                                   StatusEv(i, REVISION_REQUESTED, IN_PROGRESS),
                                   StatusEv(i, IN_PROGRESS, REVIEW) >>
                    /\ visit.db[i].status = REVIEW
                    /\ visit.db[i].deliverable_paths = run.paths
                    /\ comm = "ok" => r.ret = DeliveryPayload("revision_msg", run.paths)

\* The revision step has just taken a delivered order with a revision request
\* to REVIEW with the revised path.
C16_Witness ==
  /\ last.op = "check_for_revision"
  /\ Targets(log) = <<REVISION_REQUESTED, IN_PROGRESS, REVIEW>>
  /\ CallsOf(log, "generate_revision_response") # <<>>
  /\ orders["a"].status = REVIEW
  /\ orders["a"].deliverable_paths = <<"f2">>
  /\ orders["a"].revision_count = 1

\* A step of the cycle let a BudgetExceededError out of _run_cycle.
BudgetExceededInCycle == last.err = "BudgetExceededError"

ErrorInCycle ==
  last.op # NoCall.op /\ last.err \notin {"none", "BudgetExceededError"}

StopRequested == ~sched.running /\ sched.pc \notin {"idle", "returned"}

\* C23: once stop() was called during run(), no cycle is started and the
\* cycle counter stays as it is; run() returns from the head of its loop
\* only, after the sleep, so the cycle in flight takes all its steps; and
\* run() does return.  Checked under SpecLive.
C23_StopEndsTheLoopAfterTheCycle ==
  /\ [][StopRequested =>
          /\ sched'.cycle_count = sched.cycle_count
          /\ ~sched'.running
          /\ (sched.pc = "sleep" => sched'.pc \in {"sleep", "returned"})]_vars
  /\ [][sched'.pc = "returned" => sched.pc \in {"sleep", "returned"}]_vars
  /\ (StopRequested ~> sched.pc = "returned")

\* stop() was called in the middle of a cycle, the cycle went on to its end,
\* and run() has returned.
C23_Witness ==
  /\ sched.pc = "returned"
  /\ ~sched.running
  /\ sched.cycle_count = 1
  /\ last.op = "run_returned"

\* The step that follows each step of run() when nothing is raised.
StepAfter ==
  [idle |-> "sleep", session |-> "check", check |-> "new", new |-> "revisions",
   revisions |-> "deliver", deliver |-> "acks", acks |-> "sleep"]

DeliveryLeaves(answers) ==
  (sched.pc = "deliver" /\ sched.todo # <<>>) =>
    LET fid == Head(sched.todo).fiverr_order_id
        i == Lookup(orders, fid)
    IN (orders[i].status = REVIEW /\ orders[i].deliverable_paths # <<>>) =>
         \A deliver \in answers :
           LET r == deliver_ready_order(orders, fid, orders[i].deliverable_paths,
                                        "ok", deliver)
           IN /\ r.exc = "none"
              /\ StatusWrites(r.log)[1] = StatusEv(i, REVIEW, DELIVERING)
              /\ Len(CallsOf(r.log, "deliver_order")) = 1
              /\ r.db[i].status # DELIVERING
              /\ IF deliver = "True"
                   THEN r.db[i].status = DELIVERED
                   ELSE r.db[i].status = FAILED /\ r.db[i].notes # orders[i].notes

\* C25: the delivery step takes an order in REVIEW with a deliverable path
\* to DELIVERING, calls deliver_order, and leaves the order DELIVERED when
\* the delivery succeeded and FAILED with a note when deliver_order answered
\* False or raised; it does not leave the order in DELIVERING.
C25_DeliveryStepSettlesTheOrder == DeliveryLeaves({"True", "False", "raise"})

\* The paid calls made during one _handle_new_order.
PaidCalls ==
  {"generate_acknowledgment", "analyze_order", "worker.process",
   "generate_clarification", "generate_delivery_message"}

\* What the collaborator behind the paid call `site` answers under h.
AnswerAt(h, site) ==
  CASE site = "generate_acknowledgment" -> h.ack
    [] site = "analyze_order" -> h.env.analysis.out
    [] site = "worker.process" -> h.env.worker.out
    [] OTHER -> h.env.comm

\* The entries of a log from the first call of `what` on.
FromCall(lg, what) ==
  LET at == {k \in DOMAIN lg : lg[k].ev = what}
  IN IF at = {} THEN <<>>
     ELSE SubSeq(lg, CHOOSE k \in at : \A j \in at : k <= j, Len(lg))

\* The scheduler is about to call _handle_new_order for the head of its list.
HandleDue ==
  /\ sched.todo # <<>>
  /\ \/ sched.pc = "acks"
     \/ sched.pc = "new" /\ Head(sched.todo).status \in {"new", "active", "in progress", ""}

\* C22: when a paid call made while an order is handled (generation of the
\* acknowledgment, analysis, worker, generation of a message) is refused with
\* BudgetExceededError, the error reaches the scheduler's loop, which pauses
\* for the cool-down, and no order's status is written after the refused
\* call: every order keeps the status it had just before it.
C22_BudgetRefusalPausesAndKeepsOrders ==
  HandleDue =>
    \A h \in HandleEnvs :
      LET r == handle_new_order(orders, Head(sched.todo), h)
      IN \A site \in PaidCalls :
           (AnswerAt(h, site) = "budget" /\ CallsOf(r.log, site) # <<>>) =>
             /\ r.exc = "BudgetExceededError"
             /\ StatusWrites(FromCall(r.log, site)) = <<>>

-----------------------------------------------------------------------------
(* Properties of a cycle over two orders, checked under SpecBatch *)

\* How many times id occurs in the sequence w.
RECURSIVE Count(_, _)
Count(w, id) ==
  IF w = <<>> THEN 0
  ELSE (IF Head(w) = id THEN 1 ELSE 0) + Count(Tail(w), id)

\* The scraped statuses for which step 3 calls _handle_new_order.
HandledStatuses == {"new", "active", "in progress", ""}

\* No cycle calls _handle_new_order twice for one order.
HandledAtMostOnce == \A id \in BatchListed : Count(handled, id) <= 1

\* The poll queues for _handle_new_order no order whose row held a status
\* past NEW when the poll began.
OnlyNewOrdersQueued ==
  (sched.pc = "check" /\ sched'.pc = "new") =>
    \A k \in DOMAIN sched'.todo :
      LET o == sched'.todo[k] IN
        (o.status \in HandledStatuses /\ o.fiverr_order_id \in DOMAIN orders) =>
          orders[o.fiverr_order_id].status = NEW_

\* C24: in a cycle _handle_new_order is called once at most for an order, and
\* the poll hands to step 3 no order that was stored with a status past NEW.
C24_NewOrderHandledOnce == []HandledAtMostOnce /\ [][OnlyNewOrdersQueued]_vars

\* The positions of _run_cycle inside its loops over orders.
PerOrderSteps == {"new", "revisions", "deliver", "acks"}

\* A loop of the cycle has another order waiting behind the one it visits.
OthersWait == sched.pc \in PerOrderSteps /\ Len(sched.todo) >= 2

\* The loop goes on with the orders that waited.
GoesOnWithTheRest == sched'.pc = sched.pc /\ sched'.todo = Tail(sched.todo)

\* C28: within a cycle, whatever fails while one order is visited (details
\* fetch, acknowledgment, dispatch, revision check, delivery message or
\* delivery) is caught for that order: the loop goes on with the orders that
\* waited behind it, so that they are handled in the same cycle.
C28_OneBadOrderNeverBlocksTheBatch == [][OthersWait => GoesOnWithTheRest]_vars

\* The last step of the cycle, _send_pending_acknowledgments, ends: by the
\* end of its loop or by an exception that leaves it.
RecoveryEnds == sched.pc = "acks" /\ sched'.pc # "acks"

\* Every order the last step found in NEW has been passed to
\* _handle_new_order: none waits behind the order the ending step visits.
AllNewWerePassed == Len(sched.todo) <= 1

\* C27: every order that is stored as NEW when a cycle reaches its last step
\* is passed to _handle_new_order in that cycle.
C27_RecoveryHandlesEveryNewOrder == [][RecoveryEnds => AllNewWerePassed]_vars

-----------------------------------------------------------------------------
(* Properties of a run() that keeps running cycles, checked under SpecFair *)

\* The statuses in which an order waits for the system to act.
SystemStatuses == {NEW_, ANALYZING, IN_PROGRESS, REVIEW, DELIVERING, REVISION_REQUESTED}

\* The stored status of the order a, "" before the monitor has inserted it.
StoredStatus == IF Subject \in DOMAIN orders THEN orders[Subject].status ELSE ""

\* The order a, once it is in status s, is later in another status.
LeavesStatus(s) == (StoredStatus = s) ~> (StoredStatus # s)

\* C26: while run() keeps running cycles and the collaborators succeed from
\* some cycle on, no order stays for ever in a status in which it waits for
\* the system: a later cycle takes it to another status, also when a failure
\* left it there.
C26_OrdersNeverGetStuck == \A s \in SystemStatuses : LeavesStatus(s)

-----------------------------------------------------------------------------
(* Properties of calls of transition under way together, checked under        *)
(* SpecRace                                                                   *)

\* The store and the answers after the calls listed in w are made one after
\* the other, each to its end, on the store db.
RECURSIVE OneAfterTheOther(_, _)
OneAfterTheOther(db, w) ==
  IF w = <<>> THEN [db |-> db, errs |-> {}]
  ELSE LET t == transition(db, Lookup(db, Subject), calls[Head(w)].target, "", NoPaths)
           rest == OneAfterTheOther(t.db, Tail(w))
       IN [db |-> rest.db, errs |-> rest.errs \cup {<<Head(w), t.err>>}]

\* The store and the answers the calls under way have produced.
Outcome == [db |-> orders, errs |-> {<<k, calls[k].err>> : k \in DOMAIN calls}]

\* The calls that ended have the outcome of making them one after the other
\* in some order.
Serialisable ==
  CallsEnded =>
    \E w \in Orderings(DOMAIN calls) :
      OneAfterTheOther(calls[1].before, w) = Outcome

\* Every write of the calls under way starts from the status that was stored
\* when it was made: no write is based on a status another call has replaced.
WritesFollowStored ==
  calls # NoCalls =>
    \A k \in DOMAIN log :
      log[k].from = (IF k = 1 THEN calls[1].before[log[k].id].status ELSE log[k - 1].to)

\* C30: transition reads, checks and writes as one atomic step: calls on one
\* order that interleave where they await end as if made one after the other
\* in some order, so that two calls that read the same status do not both
\* succeed unless the second target is a legal successor of the first, and no
\* update is lost.
C30_TransitionIsAtomic == Serialisable /\ WritesFollowStored

-----------------------------------------------------------------------------
(* Properties of the AI client, checked under SpecAI *)

\* The inputs of a call of complete.
CompleteInputs ==
  [outs : OutcomeSeqs(max_attempts), cost : Costs, insert : {"ok", "raise"}]

\* C17: a call of complete made when get_daily_cost() is at or above the cap
\* raises BudgetExceededError, sends no request to the provider and leaves the
\* cost records and the accumulator as they were; and in every call, each
\* request to the provider, that of a retry included, comes right after a
\* check of the budget.
C17_BudgetCheckedBeforeEveryRequest ==
  \A in \in CompleteInputs :
    LET r == complete(ai, in.outs, in.cost, in.insert)
    IN /\ get_daily_cost(ai) >= daily_cap =>
            /\ r.exc = "BudgetExceededError"
            /\ CallsOf(r.log, "messages.create") = <<>>
            /\ r.ai = ai
       /\ \A k \in DOMAIN r.log :
            r.log[k].ev = "messages.create" =>
              k > 1 /\ r.log[k - 1].ev = "check_budget"

\* A call of complete has just been refused: the records of today add up to
\* the cap or more, the budget was checked and nothing else was done.
C17_Witness ==
  /\ last.op = "complete" /\ last.err = "BudgetExceededError"
  /\ log = <<CallEv("check_budget", "")>>
  /\ ai.has_db /\ Len(ai.costs) >= 2
  /\ get_daily_cost(ai) >= daily_cap

\* C18: the cost records in the store are as many as the responses the
\* provider has given: every answered call has appended exactly one record and
\* no failed attempt has appended any.
C18_OneRecordPerResponse ==
  ai.has_db => Len(ai.costs) = Len(ai.records)

\* The ApiCost records whose timestamp falls on the current UTC day.
RecordsOfToday(c) == SelectSeq(c.records, LAMBDA rec : rec.timestamp = c.today)

\* C19: get_daily_cost() is the sum of the costs of the recorded calls whose
\* timestamp falls on the current UTC day, with a Database and without one.
C19_DailyCostIsTodaysSum ==
  get_daily_cost(ai) = SumCosts(RecordsOfToday(ai))

-----------------------------------------------------------------------------
(* Properties of the retry wrapper, checked under SpecRetry (C31: under       *)
(* SpecRetryLive)                                                             *)

\* The sleeps of the wrapper's current call are those of its kind of wrapper.
SleepsOfItsKind ==
  \A k \in DOMAIN wrapper.slept :
    wrapper.slept[k].how = (IF wrapper.sync THEN "time.sleep" ELSE "asyncio.sleep")

\* A wrapper that has returned returns the result of its last call, the k-th,
\* after k calls and k - 1 sleeps, with k at most max_attempts.
ReturnsAfterKCalls ==
  wrapper.pc = "returned" =>
    /\ wrapper.ret = wrapper.called
    /\ wrapper.called \in 1 .. wrapper.max_attempts
    /\ Len(wrapper.slept) = wrapper.called - 1
    /\ SleepsOfItsKind

\* C31: a function wrapped with retry(max_attempts=n) is called again after
\* each failure with a listed exception, until it succeeds or has been
\* called n times: the sleep after such a failure is followed by the next
\* call, the loop is left in the end, and when the k-th call succeeds the
\* wrapper returns its result after exactly k calls and k - 1 sleeps (one
\* call and no sleep when the first call succeeds), in the sync wrapper and
\* in the async wrapper.
C31_RetriesUntilSuccess ==
  /\ []ReturnsAfterKCalls
  /\ \A k \in 1 .. MaxAttempts :
       (wrapper.pc = "sleeping" /\ wrapper.called = k)
         ~> (wrapper.pc = "calling" /\ wrapper.called = k /\ wrapper.attempt = k)
  /\ (wrapper.pc \in {"calling", "sleeping"}) ~> (wrapper.pc \in {"returned", "raised"})

\* A sync wrapper with max_attempts = 3 has returned the result of its third
\* call after two sleeps.
C31_Witness ==
  /\ wrapper.pc = "returned" /\ wrapper.sync
  /\ wrapper.max_attempts = 3
  /\ wrapper.called = 3 /\ wrapper.ret = 3
  /\ Len(wrapper.slept) = 2

\* Whatever the wrapper does, it has called the function at most
\* max_attempts times.
AtMostNCalls == wrapper.called <= wrapper.max_attempts

\* A wrapper that has raised an exception its except clause catches has made
\* max_attempts calls and one sleep less, and raises the exception of its
\* last call.
ExhaustedAfterNCalls ==
  (wrapper.pc = "raised" /\ Caught(wrapper.exc.type, wrapper.exceptions)) =>
    /\ wrapper.called = wrapper.max_attempts
    /\ Len(wrapper.slept) = wrapper.max_attempts - 1
    /\ wrapper.exc.call = wrapper.max_attempts
    /\ SleepsOfItsKind

\* C32: when the function fails with a listed exception on all n calls, the
\* wrapper makes exactly n calls and n - 1 sleeps, none after the last
\* failure, and raises the exception of the last call; it never makes more
\* than n calls.
C32_ExhaustedRetriesReraise == AtMostNCalls /\ ExhaustedAfterNCalls

\* An async wrapper with max_attempts = 3 has raised the ConnectionError of
\* the third call after two sleeps.
C32_Witness ==
  /\ wrapper.pc = "raised" /\ ~wrapper.sync
  /\ wrapper.max_attempts = 3 /\ wrapper.called = 3
  /\ wrapper.exc = [type |-> "ConnectionError", call |-> 3]
  /\ Len(wrapper.slept) = 2

\* The exception that left the wrapper is one its except clause does not
\* catch.
Propagated ==
  wrapper.pc = "raised" /\ ~Caught(wrapper.exc.type, wrapper.exceptions)

\* The function raises an exception that is not listed.
RaisesUnlisted ==
  /\ wrapper.pc = "calling" /\ wrapper'.called = wrapper.called + 1
  /\ wrapper'.exc # NoExc
  /\ ~Caught(wrapper'.exc.type, wrapper.exceptions)

\* C33: an exception whose type is not in the exceptions tuple propagates at
\* once: the wrapper raises it without a sleep and without another call, so
\* that a function whose first call raises it is called exactly once and no
\* sleep happens, whatever max_attempts is.
C33_UnlistedExceptionPropagates ==
  /\ [](Propagated =>
          /\ wrapper.exc.call = wrapper.called
          /\ Len(wrapper.slept) = wrapper.called - 1
          /\ (wrapper.attempt = 0 => wrapper.called = 1 /\ wrapper.slept = <<>>))
  /\ [][RaisesUnlisted =>
          /\ wrapper'.pc = "raised"
          /\ wrapper'.slept = wrapper.slept
          /\ wrapper'.exc.call = wrapper'.called]_vars

\* A wrapper with max_attempts = 3 and exceptions = (ConnectionError,) has
\* raised the TypeError of its first call, without a sleep.
C33_Witness ==
  /\ wrapper.pc = "raised" /\ wrapper.max_attempts = 3
  /\ wrapper.exceptions = {"ConnectionError"}
  /\ wrapper.exc = [type |-> "TypeError", call |-> 1]
  /\ wrapper.called = 1 /\ wrapper.slept = <<>>

\* The delays of the sleeps of the wrapper's current call are within their
\* range: the k-th sleep follows the failure of attempt k - 1.
DelaysWithinRange ==
  \A k \in DOMAIN wrapper.slept :
    LET exp == wrapper.base_delay * (2 ^ (k - 1))
        delay == wrapper.slept[k].delay
    IN /\ delay <= wrapper.max_delay
       /\ delay >= Min(exp, wrapper.max_delay)
       /\ delay <= exp + wrapper.base_delay

\* _compute_delay is min(base_delay * 2^attempt + jitter, max_delay).
DelayFormula ==
  \A attempt \in 0 .. MaxAttempts, base_delay \in BaseDelays,
     max_delay \in MaxDelays :
    \A jitter \in Jitters(base_delay) :
      LET exp == base_delay * (2 ^ attempt)
          delay == compute_delay(attempt, base_delay, max_delay, jitter)
      IN /\ delay = Min(exp + jitter, max_delay)
         /\ delay <= max_delay
         /\ delay >= Min(exp, max_delay)

\* A later sleep of the call whose delay is below the cap is at least as
\* long as the first sleep.
LaterDelayNotSmaller ==
  \A k \in DOMAIN wrapper.slept :
    (k > 1 /\ wrapper.slept[k].delay < wrapper.max_delay) =>
      wrapper.slept[k].delay >= wrapper.slept[1].delay

\* From the third sleep on, a delay below the cap is larger than the first.
ThirdDelayLarger ==
  \A k \in DOMAIN wrapper.slept :
    (k > 2 /\ wrapper.slept[k].delay < wrapper.max_delay) =>
      wrapper.slept[k].delay > wrapper.slept[1].delay

\* C37 as it holds: the delay before retry number attempt + 1 is
\* min(base_delay * 2^attempt + jitter, max_delay) with jitter from 0 to
\* base_delay; it never exceeds max_delay and is never below
\* min(base_delay * 2^attempt, max_delay); below the cap, the delay after a
\* later failure is never smaller than the delay after the first failure,
\* and it is larger from the third failure on.
C37_DelayWithinBoundsAndNotShrinking ==
  DelayFormula /\ DelaysWithinRange /\ LaterDelayNotSmaller /\ ThirdDelayLarger

\* C37 as the claim states it: below the cap, the delay after every later
\* failure is larger than the delay after the first failure.
C37_LaterDelayLarger ==
  \A k \in DOMAIN wrapper.slept :
    (k > 1 /\ wrapper.slept[k].delay < wrapper.max_delay) =>
      wrapper.slept[k].delay > wrapper.slept[1].delay

\* A wrapper with base_delay 1 and a cap that is not reached has slept three
\* times, each time longer than before.
C37_Witness ==
  /\ wrapper.base_delay = 1 /\ wrapper.max_delay = 100
  /\ Len(wrapper.slept) = 3
  /\ wrapper.slept[1].delay < wrapper.slept[2].delay
  /\ wrapper.slept[2].delay < wrapper.slept[3].delay

-----------------------------------------------------------------------------
(* The retry wrapper around AIClient.complete, checked under SpecAI *)

\* C38: a BudgetExceededError raised by check_budget inside complete is not
\* retried: the call ends after that one check, with no request to the
\* provider and no sleep after it; a retryable error of the provider is
\* followed by a sleep and by another attempt, which checks the budget again,
\* so that a call makes one budget check more than it sleeps.
C38_BudgetRefusalIsNotRetried ==
  last.op = "complete" =>
    /\ Len(CallsOf(log, "check_budget")) = Len(CallsOf(log, "sleep")) + 1
    /\ last.err = "BudgetExceededError" =>
         /\ log = <<CallEv("check_budget", "")>>
    /\ \A k \in DOMAIN log :
         log[k].ev = "sleep" =>
           /\ log[k - 1].ev = "messages.create"
           /\ k < Len(log) /\ log[k + 1].ev = "check_budget"

\* A call of complete has just been refused by its budget check.
C38_Witness ==
  /\ last.op = "complete" /\ last.err = "BudgetExceededError"
  /\ get_daily_cost(ai) >= daily_cap
  /\ CallsOf(log, "check_budget") # <<>>

\* A call of complete has just failed with a retryable error on every
\* attempt, with a budget check before each.
C38_WitnessRetried ==
  /\ last.op = "complete" /\ last.err = "RetryableError"
  /\ Len(CallsOf(log, "check_budget")) = max_attempts
  /\ Len(CallsOf(log, "sleep")) = max_attempts - 1

-----------------------------------------------------------------------------
(* Properties of the stored orders over the cycles, checked under Spec *)

\* C34: in every reachable state the stored status of every order is one of
\* the eleven values of the OrderStatus enumeration, whatever status strings
\* the order monitor scrapes and reports.
C34_StoredStatusIsInEnumeration ==
  \A i \in DOMAIN orders : orders[i].status \in OrderStatus

\* The environments of a _handle_new_order whose fetch of the details fails,
\* whatever the other collaborators would have answered.
FailedFetches == {[h EXCEPT !.details = "raise"] : h \in HandleEnvs}

FollowsAt(lg, k, part) ==
  /\ k + Len(part) <= Len(lg)
  /\ SubSeq(lg, k + 1, k + Len(part)) = part

\* C36 (checked under SpecLive, for every way a _handle_new_order can go):
\* sending the acknowledgment is best-effort: when the send of the
\* acknowledgment fails, _handle_new_order still calls process_new_order for
\* the same order in the same call (what the dispatcher logs follows the
\* failed send and the store is the one the dispatcher left) and does not
\* raise; and when the message of a clarification cannot be sent,
\* _handle_new_order does not raise and the order stays CLARIFYING.
C36_SendsAreBestEffort ==
  HandleDue =>
    \A h \in HandleEnvs :
      LET fid == Head(sched.todo).fiverr_order_id
          r == handle_new_order(orders, Head(sched.todo), h)
          p == process_new_order(orders, fid, h.env, RegisteredWorkers)
          ack_failed == SendEv("send_acknowledgment", fid, "raise")
          clarification_failed == SendEv("send_clarification", fid, "raise")
      IN /\ \A k \in DOMAIN r.log :
              r.log[k] = ack_failed =>
                /\ r.exc = "none"
                /\ r.db = p.db
                /\ FollowsAt(r.log, k, p.log)
         /\ \A k \in DOMAIN r.log :
              r.log[k] = clarification_failed =>
                /\ k = Len(r.log)
                /\ r.exc = "none"
                /\ r.db = p.db
                /\ CallsOf(r.log, "generate_clarification") # <<>> =>
                     r.db[Lookup(r.db, fid)].status = CLARIFYING

\* The acknowledgment of the order just handled could not be sent, and the
\* dispatcher took the order out of NEW all the same.
C36_Witness ==
  /\ last.op \in {"handle_new_order", "recover_new_order"}
  /\ \E k \in DOMAIN log :
       /\ log[k] = SendEv("send_acknowledgment", last.args[1], "raise")
       /\ k < Len(log) /\ log[k + 1].ev = "status" /\ log[k + 1].to = ANALYZING

\* The clarification of the order just handled could not be sent, and the
\* order is CLARIFYING.
C36_WitnessClarification ==
  /\ last.op \in {"handle_new_order", "recover_new_order"}
  /\ log # <<>>
  /\ log[Len(log)] = SendEv("send_clarification", last.args[1], "raise")
  /\ orders[last.args[1]].status = CLARIFYING

\* What a visit of the loop of _deliver_ready_orders can be given for the
\* order stored as i: the paths of its row, or some paths.
VisitPaths(i) == {orders[i].deliverable_paths, <<"f1">>}

\* C39: deliver_order is called for an order only while its stored status is
\* DELIVERING, right after the transition REVIEW -> DELIVERING succeeded,
\* and never when that transition failed; and at most once for each time the
\* order entered REVIEW: a visit calls it once at most, the call finds the
\* order in REVIEW and leaves it out of REVIEW, no order is visited twice in
\* a pass and no other step of the cycle calls it.
C39_DeliveryOnlyInDeliveringOncePerReview ==
  /\ \A i \in DOMAIN orders :
       \A paths \in VisitPaths(i), comm \in CommRuns, deliver \in {"True", "False", "raise"} :
         LET fid == orders[i].fiverr_order_id
             r == deliver_ready_order(orders, fid, paths, comm, deliver)
         IN /\ Len(CallsOf(r.log, "deliver_order")) <= 1
            /\ \A k \in DOMAIN r.log :
                 r.log[k].ev = "deliver_order" =>
                   /\ orders[i].status = REVIEW
                   /\ k > 1 /\ r.log[k - 1] = StatusEv(i, REVIEW, DELIVERING)
                   /\ r.db[i].status # REVIEW
  /\ sched.pc = "deliver" =>
       \A j, k \in DOMAIN sched.todo :
         sched.todo[j].fiverr_order_id = sched.todo[k].fiverr_order_id => j = k
  /\ CallsOf(log, "deliver_order") # <<>> =>
       /\ last.op = "deliver_ready_order"
       /\ Len(CallsOf(log, "deliver_order")) = 1
       /\ orders[last.args[1]].status \in {DELIVERING, DELIVERED, FAILED}

\* deliver_order has just been called for an order and it raised: the order
\* is DELIVERING.
C39_Witness ==
  /\ last.op = "deliver_ready_order"
  /\ CallsOf(log, "deliver_order") # <<>>
  /\ orders[last.args[1]].status = DELIVERING

\* C40: a buyer receives at most one acknowledgment per order: whenever
\* _handle_new_order sends the acknowledgment of an order, over any number of
\* cycles, monitor reports and recovery passes, it sends it once, the order is
\* stored as NEW, and the same call takes the order out of NEW, so that the
\* acknowledgment is sent at most once for each time the order is NEW and
\* never for an order that has advanced past NEW.
C40_OneAcknowledgmentPerOrder ==
  HandleDue =>
    \A h \in HandleEnvs :
      LET fid == Head(sched.todo).fiverr_order_id
          i == Lookup(orders, fid)
          r == handle_new_order(orders, Head(sched.todo), h)
      IN CallsOf(r.log, "send_acknowledgment") # <<>> =>
           /\ Len(CallsOf(r.log, "send_acknowledgment")) = 1
           /\ orders[i].status = NEW_
           /\ r.db[i].status # NEW_

====
